---- MODULE Spec2Model ----
(***************************************************************************)
(* Model of the xHCI host engine of axusb_host: the USBDevice facade       *)
(* (src/src/host/device/mod.rs), the request dispatcher and the event loop *)
(* of XHCIController (src/src/host/controllers/xhci/mod.rs).               *)
(*                                                                         *)
(* Scheduling.  The event loop, the dispatcher and every facade caller are *)
(* futures joined on one executor (lib.rs:142-152, xhci/mod.rs:1275-1296): *)
(* a task runs until an await that cannot complete.  One action of this    *)
(* model is one such run: it starts where the task was suspended (or at a  *)
(* call) and ends at the next await that can suspend (a oneshot receiver,  *)
(* a semaphore, a full or an empty queue, the state lock, the event ring). *)
(* The controller hardware runs concurrently and is a separate process.    *)
(*                                                                         *)
(* Specifications.  Spec: the enumeration of the first device and one      *)
(* driver; SpecOnce and SpecKeep: one-shot and keep-fill requests on the   *)
(* assigned device; SpecStray: the enumeration with events the driver did  *)
(* not ask for; SpecMux and SpecMuxFair: the dispatcher over two devices;  *)
(* SpecBoot: XHCIController::init, which runs before any task exists;      *)
(* SpecPost: the dispatcher one memory operation at a time; SpecFlood and  *)
(* SpecWrap: a driver that pushes with request_no_response and waits for   *)
(* nothing; SpecEarly: such a driver during the enumeration; SpecNoop and  *)
(* SpecNoopFair: request_once with an operation that posts no TRB;         *)
(* SpecEvents: events of the other variants; SpecEventRing: the event ring *)
(* slot by slot, with ERDP; SpecSetup: EnableFunction for an endpoint      *)
(* whose ring is in use; SpecEnqueue: a ring on its own, enqueue after     *)
(* enqueue; SpecStart: init followed by the enumeration.                   *)
(***************************************************************************)
EXTENDS Integers, Sequences, FiniteSets, TLC

(***************************************************************************)
(* Bounds of the model.                                                    *)
(***************************************************************************)
\* entries of every ring, the Link TRB included
RingLen == 8
\* TRB slots of the event ring segment
EventLen == 3
\* RING_BUFFER_SIZE: capacity of the per-device request queue
QueueCap == 2
\* one-shot channels request_once may create in one run of the model
MaxCh == 2
\* largest bNumConfigurations the modelled device reports
MaxCfg == 1
\* device slots the controller offers (HCSPARAMS1.MaxSlots)
MaxSlots == 2
\* TransferEvents the hardware writes for a keep-fill endpoint
MaxKf == 3

\* root ports of the controller
MaxPorts == 2
\* TRB positions per ring such an event may point at
MaxStrayIdx == 3
\* requests a driver pushes with request_no_response
MaxPushes == 3
\* enqueues made on the ring that is driven on its own: two laps and more
MaxEnq == 16
\* requests the driver of SpecWrap pushes: enough for the enqueue pointer to
\* come round to a TRB it has written
MaxLap == 4

(***************************************************************************)
(* Program constants.                                                      *)
(***************************************************************************)
CONTROL_DCI == 1
\* completion codes (usb/operations/mod.rs, RequestResult)
Success == 1
StallError == 6
NoSlotsAvailableError == 9
ShortPacket == 13
ParameterError == 17
\* the values of the CompletionCode / RequestResult enums: 0..36 without 30
KnownCodes == (0..36) \ {30}
\* a completion-code byte that is no value of the enum
UnknownCode == CHOOSE v \in 0..255 : v \notin KnownCodes

\* the DCI of the interrupt-IN endpoint of the modelled function: endpoint 1,
\* IN (doorbell_value_aka_dci: 2 * endpoint number + direction)
IntDci == 2 * 1 + 1

Callers == {"assign", "d1", "d2"}
Drivers == {"d1", "d2"}
\* one-shot channels: 1..MaxCh are made by request_once, the least one is the
\* dispatcher's own (assign_address_device, xhci/mod.rs:935)
AllChans == 0..MaxCh
DispCh == CHOOSE c \in AllChans : \A d \in AllChans : c <= d
Chans == AllChans \ {DispCh}

XferCodes == {Success, ShortPacket, StallError, UnknownCode}
PortSpeeds == {2, 7}
Byte7Vals == {0, 64}

(***************************************************************************)
(* Maps (BTreeMap) as functions with a finite domain.                      *)
(***************************************************************************)
EmptyMap == << >>

MapPut(m, k, v) == [x \in (DOMAIN m) \cup {k} |-> IF x = k THEN v ELSE m[x]]

MapDel(m, k) == [x \in (DOMAIN m) \ {k} |-> m[x]]

(***************************************************************************)
(* Completion codes.                                                       *)
(***************************************************************************)
\* TransferEvent::completion_code(): Ok(code) for an enum value, Err(raw) otherwise
CompletionCodeOf(raw) ==
    IF raw \in KnownCodes THEN [ok |-> TRUE, v |-> raw] ELSE [ok |-> FALSE, v |-> raw]

(***************************************************************************)
(* Rings (xhci/ring.rs).  A ring is RingLen TRB slots, the last one the    *)
(* Link TRB back to slot 0 with Toggle Cycle.                              *)
(***************************************************************************)
NoTrb == [type |-> "None", buf |-> "none", flags |-> {}, cyc |-> FALSE]

LinkTrb == [type |-> "Link", buf |-> "none", flags |-> {"TC"}, cyc |-> FALSE]

LinkIdx == RingLen - 1

\* Ring::new(os, len, cycle)
NewRing(cycle) ==
    [idx |-> 0, cycle |-> cycle,
     trbs |-> [i \in 0..LinkIdx |-> IF i = LinkIdx THEN LinkTrb ELSE NoTrb]]

\* the number of a ring: 0 is the command ring, slot * 32 + dci a transfer ring
RingNo(slot, dci) == slot * 32 + dci

CmdRing == RingNo(0, 0)

RingIds == {CmdRing} \cup {RingNo(s, d) : s \in 1..MaxSlots, d \in {CONTROL_DCI, IntDci}}

\* physical address of slot i of ring r (TRBs are 16 bytes)
TrbAddr(r, i) == r * 1024 + 16 * i

\* enqueue that walks onto the Link TRB instead of following it
RingEnqueue_OntoLink(ring, trb) ==
    LET written == [ring.trbs EXCEPT ![ring.idx] = [trb EXCEPT !.cyc = ring.cycle]]
        wraps == ring.idx = LinkIdx
    IN  [idx |-> IF wraps THEN 0 ELSE ring.idx + 1,
         cycle |-> IF wraps THEN ~ring.cycle ELSE ring.cycle,
         trbs |-> written]

\* Ring::enque_transfer / enque_command: write the TRB at the enqueue index with
\* the producer cycle, step over the Link TRB (toggling the cycle) and advance
RingEnqueue(ring, trb) ==
    LET written == [ring.trbs EXCEPT ![ring.idx] = [trb EXCEPT !.cyc = ring.cycle]]
        wraps == ring.idx + 1 = LinkIdx
    IN  [idx |-> IF wraps THEN 0 ELSE ring.idx + 1,
         cycle |-> IF wraps THEN ~ring.cycle ELSE ring.cycle,
         trbs |-> IF wraps
                  THEN [written EXCEPT ![LinkIdx] = [LinkTrb EXCEPT !.cyc = ring.cycle]]
                  ELSE written]

\* enqueue a sequence of TRBs one after the other
RECURSIVE RingEnqueueAll(_, _)
RingEnqueueAll(ring, trbs) ==
    IF trbs = << >> THEN ring
    ELSE RingEnqueueAll(RingEnqueue(ring, Head(trbs)), Tail(trbs))

\* index at which the n-th next enqueue (n >= 1) on the ring writes
RECURSIVE EnqueueIdx(_, _)
EnqueueIdx(ring, n) ==
    IF n = 1 THEN ring.idx
    ELSE EnqueueIdx(RingEnqueue(ring, NoTrb), n - 1)

(***************************************************************************)
(* State.                                                                  *)
(***************************************************************************)
VARIABLES
    devState,     \* USBDevice.state: "Probed" or "Assigned"
    stReaders,    \* callers holding a read guard of USBDevice.state
    slotId,       \* USBDevice.slot_id (OnceCell): 0 is uninitialized
    descriptor,   \* USBDevice.descriptor (OnceCell)
    sem,          \* permits of USBDevice.configure_sem
    queue,        \* the device's request queue (request_channel / Receiver)
    cpc,          \* where each facade caller is
    cloc,         \* each caller's locals
    chan,         \* the one-shot channels
    dpc,          \* where the dispatcher (run_once) is
    dcur,         \* the request the dispatcher is working on
    dslot,        \* assign_address_device: the slot id EnableSlot returned
    cmdRes,       \* post_command's one-shot: the CommandCompletion received
    rings,        \* the command ring and the transfer rings that exist
    ep0Mps,       \* max packet size of EP0 in each slot's Input Context
    hwCmd,        \* commands the controller has been told of and not completed
    hwXfer,       \* per transfer ring: the TDs rung and not completed
    hwSlots,      \* slots the controller has handed out
    evq,          \* events written to the event ring and not yet consumed
    finish_jobs,  \* XHCIController.finish_jobs
    extra_works,  \* XHCIController.extra_works
    panicked,     \* "" or the panic that stopped the executor
    evalLog,      \* what the last EvaluateContext was posted with
    kfEv,         \* refills run by the event loop
    kfSucc,       \* refills run for a Success event
    regs,         \* the controller's registers and DCBAA[0], as init touches them
    ipc,          \* where init() is
    iport,        \* reset_ports: the port the loop is at
    ports,        \* PORTSC of each root port
    devices,      \* XHCIController.devices
    requests,     \* XHCIController.requests (one Receiver per device)
    broadcasts,   \* event_bus.pre_initialize_device broadcasts made
    queue2,       \* the request queue of the second device found
    polled,       \* run_once: receivers whose pop has already yielded
    ppc,          \* the operations left of the post the dispatcher is making
    dev_ctx,      \* XHCIController.dev_ctx (the RwLock): who holds the write guard
    dcbaa,        \* DeviceContextList.dcbaa: the entry of each slot
    ep_ctx,       \* the endpoint contexts written to the Input Contexts, by ring
    event,        \* XHCIController.event: the event ring and the controller's end of it
    erdp,         \* ERDP: the index last written as the dequeue pointer
    enq           \* the enqueues made on a ring that is driven on its own

devVars == <<devState, stReaders, slotId, descriptor, sem, queue>>
callVars == <<cpc, cloc, chan>>
dispVars == <<dpc, dcur, dslot, cmdRes>>
ctlVars == <<rings, ep0Mps, finish_jobs, extra_works>>
hwVars == <<hwCmd, hwXfer, hwSlots, evq>>
logVars == <<evalLog, kfEv, kfSucc>>
bootVars == <<regs, ipc, iport, ports, devices, requests, broadcasts>>
muxVars == <<queue2, polled>>
stepVars == <<ppc, dev_ctx>>
ctxVars == <<dcbaa, ep_ctx>>
ringVars == <<event, erdp, enq>>
vars == <<devVars, callVars, dispVars, ctlVars, hwVars, logVars, panicked,
         stepVars, bootVars, muxVars, ctxVars, ringVars>>

(***************************************************************************)
(* Requests (usb/operations/mod.rs).                                       *)
(***************************************************************************)
\* USBRequest { operation, extra_action, complete_action }; ch is the one-shot
\* of a SimpleResponse; data is "none" or the direction of the data stage, resp
\* ControlTransfer.response, buf the data buffer, dci InterruptTransfer.endpoint_id
Request(op, extra, cmp, ch, data, resp, buf, dci) ==
    [op |-> op, extra |-> extra, cmp |-> cmp, ch |-> ch,
     data |-> data, resp |-> resp, buf |-> buf, dci |-> dci]

NoRequest == Request("NOOP", "NOOP", "NOOP", DispCh, "none", FALSE, "none", 0)

\* a complete action as stored in finish_jobs (XHCICompleteAction)
Action(kind, ch) == [k |-> kind, ch |-> ch]

\* no complete action: Option::None, or no entry under the key
NoneAction == Action("None", DispCh)

\* a one-shot channel: st is "unused", "open", "sent" (a value waits for the
\* receiver), "failed" (sent to a dropped receiver) or "returned"; rx tells
\* whether the receiver is alive, val is the value sent.  addr (the terminal
\* TRB posted for the request), by and raw (address and completion code of the
\* event the value was sent for) and sends record what happened to it.
NoChan == [st |-> "unused", rx |-> FALSE, val |-> [ok |-> FALSE, v |-> 0],
           addr |-> 0, by |-> 0, raw |-> 0, sends |-> 0]

UsedChan(st) == [NoChan EXCEPT !.st = st]

NoLoc == [via |-> "none", op |-> "none", ch |-> DispCh, n |-> 0, i |-> 0, cfgs |-> {}]

NoCmdRes == [code |-> 0, slot |-> 0, addr |-> 0]

NoEval == [byte7 |-> -1, mps |-> 0, slot |-> 0]

\* no post is under way: the dispatcher is between two requests or suspended
NoPost == [ops |-> << >>, what |-> "none", slot |-> 0, req |-> NoRequest,
           mps |-> 0, key |-> 0, fenced |-> FALSE, then |-> "idle"]

(***************************************************************************)
(* Device contexts (xhci/context.rs) and the event ring                    *)
(* (xhci/event_ring.rs).                                                   *)
(***************************************************************************)
\* physical address of the Output Context of a slot
OutputContextAddr(slot) == 4096 * slot

\* DeviceContextList::new_slot: DCBAA[slot_id] <- phys(output context)
new_slot(d, slot) == [d EXCEPT ![slot] = OutputContextAddr(slot)]

\* an endpoint context: TR Dequeue Pointer (the ring's address) and Dequeue
\* Cycle State
EndpointContext(r, dcs) == [deq |-> TrbAddr(r, 0), dcs |-> dcs]

\* assign_address_device: EP0's context takes (ring.register(), ring.cycle)
Endpoint0Context(rs, slot) ==
    EndpointContext(RingNo(slot, CONTROL_DCI), rs[RingNo(slot, CONTROL_DCI)].cycle)

\* setup_endpoint: set_tr_dequeue_pointer(ring_addr) and
\* set_dequeue_cycle_state(), which sets the bit
SetupEndpointContext(rs, slot, dci) == EndpointContext(RingNo(slot, dci), TRUE)

\* a slot of the event ring segment: the event and the cycle bit it was
\* written with
EventTrb(e, cyc) == [ev |-> e, cyc |-> cyc]

NoEvent == [type |-> "None", addr |-> 0, raw |-> 0, slot |-> 0]

\* EventRing::new: a zeroed segment, dequeue index 0, consumer cycle 1; the
\* controller starts at the same place (enq, pcs)
NewEventRing ==
    [idx |-> 0, cycle |-> TRUE, enq |-> 0, pcs |-> TRUE,
     trbs |-> [i \in 0..(EventLen - 1) |-> EventTrb(NoEvent, FALSE)]]

\* XHCIController::new: the command ring, Ring::new(os, entries, true)
CmdRingNew_CycleZero == NewRing(FALSE)

CmdRingNew == NewRing(TRUE)

\* a ring driven on its own, as the constructor leaves it: k enqueues made,
\* wraps of them past the Link TRB, pass the addresses enqueue returned since
\* the last of those
NoEnq == [ring |-> CmdRingNew, k |-> 0, wraps |-> 0, pass |-> << >>]

(***************************************************************************)
(* Controller bring-up state (XHCIController::init) and the dispatcher's   *)
(* view of the devices found by the initial probe.                         *)
(***************************************************************************)
\* root port indices
Ports == 0..(MaxPorts - 1)

\* hcsparams2.max_scratchpad_buffers of the controllers considered
ScratchpadCounts == {0, 1}

\* register values a host controller reset leaves
ResetRegs(scratch) ==
    [rs |-> FALSE, hch |-> TRUE, cnr |-> FALSE, hcrst |-> FALSE, inte |-> TRUE,
     maxSlotsEn |-> 0, dcbaap |-> "zero", crcr |-> [ptr |-> "zero", rcs |-> FALSE],
     erstsz |-> 0, erdp |-> "zero", erstba |-> "zero", iman_ie |-> FALSE,
     dcbaa0 |-> "zero", scratch |-> scratch, db0 |-> 0]

\* the same steps with start ahead of set_cmd_ring
InitSteps_StartEarly ==
    <<"clear_run_stop", "wait_halted", "wait_ready", "set_hcrst", "wait_hcrst",
      "wait_reset_done", "set_max_device_slots", "set_dcbaap", "set_run_stop",
      "wait_running", "ring_doorbell", "set_cmd_ring", "init_ir",
      "setup_scratchpads", "reset_ports", "wait_port_reset", "initial_probe",
      "done">>

\* fn init: the order of the builder calls, each function split at its busy waits
InitSteps ==
    <<"clear_run_stop", "wait_halted", "wait_ready", "set_hcrst", "wait_hcrst",
      "wait_reset_done", "set_max_device_slots", "set_dcbaap", "set_cmd_ring",
      "init_ir", "setup_scratchpads", "set_run_stop", "wait_running",
      "ring_doorbell", "reset_ports", "wait_port_reset", "initial_probe", "done">>

StepNo(order, s) == CHOOSE i \in 1..Len(order) : order[i] = s

\* the step that follows s in program order
After(s) == InitSteps[StepNo(InitSteps, s) + 1]

\* fn set_cmd_ring: pointer and ring cycle state written to CRCR
CrcrOf_NoCycle(ring) == [ptr |-> "cmd_ring", rcs |-> FALSE]

CrcrOf(ring) == [ptr |-> "cmd_ring", rcs |-> ring.cycle]

\* fn initial_probe: a port is probed when PORTSC.CCS is set
Connected_Always(portsc) == TRUE

Connected(portsc) == portsc.ccs

\* fn initial_probe: the device created for port_idx; cell and q name the
\* slot_id cell and the queue made in that iteration
ProbedDevice(port_idx, n) ==
    [port |-> port_idx + 1, state |-> "Probed", cell |-> n, q |-> n]

\* the Receiver pushed for that device
ReceiverOf(dev) == [cell |-> dev.cell, q |-> dev.q]

\* fn initial_probe: the loop over the ports from port_idx on
RECURSIVE Probe(_, _, _)
Probe(ps, port_idx, acc) ==
    IF port_idx \notin DOMAIN ps THEN acc
    ELSE IF ~Connected(ps[port_idx]) THEN Probe(ps, port_idx + 1, acc)
    ELSE LET dev == ProbedDevice(port_idx, Len(acc.devices) + 1)
         IN  Probe(ps, port_idx + 1,
                   [devices |-> Append(acc.devices, dev),
                    broadcasts |-> Append(acc.broadcasts, dev),
                    requests |-> Append(acc.requests, ReceiverOf(dev))])

NoProbe == [devices |-> << >>, broadcasts |-> << >>, requests |-> << >>]

\* the registers as init leaves them on a controller with scratch buffers
RegsAfterInit(scratch) ==
    [ResetRegs(scratch) EXCEPT
        !.rs = TRUE, !.hch = FALSE, !.inte = FALSE, !.maxSlotsEn = MaxSlots,
        !.dcbaap = "dcbaa", !.crcr = CrcrOf(NewRing(TRUE)), !.erstsz = 1,
        !.erdp = "event_ring", !.erstba = "erst", !.iman_ie = TRUE,
        !.dcbaa0 = IF scratch > 0 THEN "scratchpad_array" ELSE "zero", !.db0 = 1]

\* the root ports after reset_ports, those in conn connected
PortsAfterInit(conn) ==
    [p \in Ports |-> [ccs |-> p \in conn, pr |-> FALSE, prc |-> TRUE, ped |-> p \in conn]]

\* bring-up is over, and the ports in conn had a device
Booted(conn) ==
    /\ regs = RegsAfterInit(0)
    /\ ipc = "done"
    /\ iport = MaxPorts
    /\ ports = PortsAfterInit(conn)
    /\ devices = Probe(PortsAfterInit(conn), 0, NoProbe).devices
    /\ requests = Probe(PortsAfterInit(conn), 0, NoProbe).requests
    /\ broadcasts = Probe(PortsAfterInit(conn), 0, NoProbe).broadcasts
    /\ queue2 = << >>
    /\ polled = {}

\* the controller and the first device as their constructors leave them
Constructed ==
    /\ devState = "Probed"
    /\ stReaders = {}
    /\ slotId = 0
    /\ descriptor = [set |-> FALSE, ncfg |-> 0, cfgs |-> {}]
    /\ sem = 1
    /\ queue = << >>
    /\ cpc = [c \in Callers |-> "idle"]
    /\ cloc = [c \in Callers |-> NoLoc]
    /\ chan = [h \in AllChans |-> NoChan]
    /\ dpc = "idle"
    /\ dcur = NoRequest
    /\ dslot = 0
    /\ cmdRes = NoCmdRes
    /\ rings = [r \in {CmdRing} |-> CmdRingNew]
    /\ ep0Mps = [s \in 1..MaxSlots |-> 0]
    /\ hwCmd = << >>
    /\ hwXfer = [r \in RingIds |-> << >>]
    /\ hwSlots = 0
    /\ evq = << >>
    /\ finish_jobs = EmptyMap
    /\ extra_works = EmptyMap
    /\ panicked = ""
    /\ evalLog = NoEval
    /\ kfEv = 0
    /\ kfSucc = 0
    /\ ppc = NoPost
    /\ dev_ctx = "free"
    /\ dcbaa = [s \in 1..MaxSlots |-> 0]
    /\ ep_ctx = EmptyMap
    /\ event = NewEventRing
    /\ erdp = 0
    /\ enq = NoEnq

\* init has returned; one device is connected, at root port 0
Init == Constructed /\ Booted({0})

(***************************************************************************)
(* Posting TRBs.  The operators below work on the controller's tables and  *)
(* rings as one record, st = [rings, hwXfer, hwCmd, finish_jobs,            *)
(* extra_works], and return the record after the call.                     *)
(***************************************************************************)
Ctl == [rings |-> rings, hwXfer |-> hwXfer, hwCmd |-> hwCmd,
        finish_jobs |-> finish_jobs, extra_works |-> extra_works]

SetCtl(st) ==
    /\ rings' = st.rings
    /\ hwXfer' = st.hwXfer
    /\ hwCmd' = st.hwCmd
    /\ finish_jobs' = st.finish_jobs
    /\ extra_works' = st.extra_works

\* DeviceContextList::write_transfer_ring: the ring of (slot, dci), created on
\* first access
write_transfer_ring(rs, slot, dci) ==
    IF RingNo(slot, dci) \in DOMAIN rs THEN rs
    ELSE MapPut(rs, RingNo(slot, dci), NewRing(TRUE))

\* the TRBs control_transfer builds: Setup, Data if there is a buffer, Status
ControlTrbs_NoDataStage(req) ==
    <<[type |-> "Setup", buf |-> "none", cyc |-> FALSE,
       flags |-> {IF req.data = "none" THEN "TRT_No"
                  ELSE IF req.data = "In" THEN "TRT_In" ELSE "TRT_Out"}],
      [type |-> "Status", buf |-> "none", cyc |-> FALSE,
       flags |-> {"IOC"} \cup (IF req.resp THEN {"DIR"} ELSE {})]>>

ControlTrbs(req) ==
    LET setup == [type |-> "Setup", buf |-> "none", cyc |-> FALSE,
                  flags |-> {IF req.data = "none" THEN "TRT_No"
                             ELSE IF req.data = "In" THEN "TRT_In" ELSE "TRT_Out"}]
        data == [type |-> "Data", buf |-> req.buf, cyc |-> FALSE,
                 flags |-> IF req.data = "In" THEN {"DIR_In"} ELSE {}]
        status == [type |-> "Status", buf |-> "none", cyc |-> FALSE,
                   flags |-> {"IOC"} \cup (IF req.resp THEN {"DIR"} ELSE {})]
    IN  IF req.data = "none" THEN <<setup, status>> ELSE <<setup, data, status>>

\* control_transfer: enqueue the TRBs on the slot's control ring, ring the
\* doorbell, return the address of the Status TRB
control_transfer(st, slot, req) ==
    LET r == RingNo(slot, CONTROL_DCI)
        rs == write_transfer_ring(st.rings, slot, CONTROL_DCI)
        trbs == ControlTrbs(req)
        key == TrbAddr(r, EnqueueIdx(rs[r], Len(trbs)))
    IN  [st |-> [st EXCEPT !.rings = [rs EXCEPT ![r] = RingEnqueueAll(rs[r], trbs)],
                           !.hwXfer = [st.hwXfer EXCEPT ![r] = Append(@, key)]],
         key |-> key]

\* post_control_transfer: control_transfer, then the complete action is stored
\* under the Status TRB's address
post_control_transfer_drop(st, req, cmp, slot) ==
    control_transfer(st, slot, req).st

post_control_transfer(st, req, cmp, slot) ==
    LET posted == control_transfer(st, slot, req)
    IN  [posted.st EXCEPT !.finish_jobs = MapPut(@, posted.key, cmp)]

\* interrupt_transfer: one Normal TRB with IOC | ISP on the endpoint's ring,
\* then the doorbell
interrupt_transfer(st, slot, req) ==
    LET r == RingNo(slot, req.dci)
        rs == write_transfer_ring(st.rings, slot, req.dci)
        trb == [type |-> "Normal", buf |-> req.buf, cyc |-> FALSE,
                flags |-> {"IOC", "ISP"}]
        key == TrbAddr(r, rs[r].idx)
    IN  [st |-> [st EXCEPT !.rings = [rs EXCEPT ![r] = RingEnqueue(rs[r], trb)],
                           !.hwXfer = [st.hwXfer EXCEPT ![r] = Append(@, key)]],
         key |-> key]

\* post_interrupt_transfer: cmp is Some(complete action) or None
post_interrupt_transfer(st, req, cmp, slot) ==
    LET posted == interrupt_transfer(st, slot, req)
    IN  [st |-> IF cmp.k = "None" THEN posted.st
                ELSE [posted.st EXCEPT !.finish_jobs = MapPut(@, posted.key, cmp)],
         key |-> posted.key]

\* post_transfer, the Interrupt arm with ExtraAction::KeepFill: the request goes
\* to extra_works under the new TRB's address, with CompleteAction::NOOP
post_keepfill_twice(st, req, slot) ==
    LET first == post_interrupt_transfer(st, req, NoneAction, slot)
        posted == post_interrupt_transfer(first.st, req, NoneAction, slot)
    IN  [posted.st EXCEPT !.extra_works =
            MapPut(@, posted.key, [slot |-> slot, req |-> [req EXCEPT !.cmp = "NOOP"]])]

post_keepfill(st, req, slot) ==
    LET posted == post_interrupt_transfer(st, req, NoneAction, slot)
    IN  [posted.st EXCEPT !.extra_works =
            MapPut(@, posted.key, [slot |-> slot, req |-> [req EXCEPT !.cmp = "NOOP"]])]

\* post_command up to its await: enqueue on the command ring, store the
\* CommandCallback, ring doorbell 0
post_command(st, kind, slot) ==
    LET ring == st.rings[CmdRing]
        addr == TrbAddr(CmdRing, ring.idx)
        trb == [type |-> kind, buf |-> "none", cyc |-> FALSE, flags |-> {}]
    IN  [st EXCEPT !.rings = [@ EXCEPT ![CmdRing] = RingEnqueue(ring, trb)],
                   !.finish_jobs = MapPut(@, addr, Action("CommandCallback", DispCh)),
                   !.hwCmd = Append(@, [addr |-> addr, kind |-> kind, slot |-> slot])]

(***************************************************************************)
(* The event loop (on_event_arrived).                                      *)
(***************************************************************************)
TransferEvent(addr, raw) == [type |-> "TransferEvent", addr |-> addr, raw |-> raw, slot |-> 0]

CommandCompletion(addr, raw, slot) ==
    [type |-> "CommandCompletion", addr |-> addr, raw |-> raw, slot |-> slot]

\* impl From<CompletionCode> for RequestResult: the enum value of the same number
RequestResultFrom(v) == CHOOSE r \in KnownCodes : r = v

\* what the SimpleResponse arm sends: code.map(|a| a.into()).map_err(|a| a as _)
SimpleResponseValue_OnlySuccessOk(code) ==
    IF code.ok /\ code.v \in {Success, ShortPacket}
    THEN [ok |-> TRUE, v |-> RequestResultFrom(code.v)]
    ELSE [ok |-> FALSE, v |-> code.v]

SimpleResponseValue(code) ==
    IF code.ok THEN [ok |-> TRUE, v |-> RequestResultFrom(code.v)]
    ELSE [ok |-> FALSE, v |-> code.v]

\* oneshot::Sender::send: the value is stored unless the receiver is gone, and
\* the sender is consumed either way
Send(ch, val, addr, raw) ==
    chan' = [chan EXCEPT ![ch] =
                IF @.rx
                THEN [@ EXCEPT !.st = "sent", !.val = val, !.by = addr, !.raw = raw,
                               !.sends = @ + 1]
                ELSE UsedChan("failed")]

\* let _ = sender.send(..): the result of the send is dropped, so a send to a
\* dropped receiver (delivered = FALSE) does not panic
SendResultPanics_Unwrap(delivered) == ~delivered

SendResultPanics(delivered) == FALSE

\* the DropSem arm releases the guard for these codes and panics for the others
DropSemReleases_Always(code) == TRUE

DropSemReleases(code) == code.ok /\ code.v \in {Success, ShortPacket}

\* finish_jobs.remove(&addr): the action stored under the event's address
JobAt_First(jobs, addr) == jobs[CHOOSE a \in DOMAIN jobs : \A b \in DOMAIN jobs : a <= b]

JobAt(jobs, addr) == jobs[addr]

\* finish_jobs.remove(&addr): the table without the entry
TakeJob_Keep(jobs, addr) == jobs

TakeJob(jobs, addr) == MapDel(jobs, addr)

\* the refill: extra_works.remove(&addr), then post_transfer of the stored request
Refill_None(st, addr) ==
    [st EXCEPT !.extra_works = MapDel(@, addr)]

Refill_NoDoorbell(st, addr) ==
    LET work == st.extra_works[addr]
    IN  [post_keepfill([st EXCEPT !.extra_works = MapDel(@, addr)], work.req, work.slot)
            EXCEPT !.hwXfer = st.hwXfer]

Refill(st, addr) ==
    LET work == st.extra_works[addr]
    IN  post_keepfill([st EXCEPT !.extra_works = MapDel(@, addr)], work.req, work.slot)

\* if self.finish_jobs.read().await.contains_key(&addr): an event whose
\* address has no entry is passed over
UnknownAddressPanics_Unwrap(has) == ~has

UnknownAddressPanics(has) == FALSE

mark_transfer_completed(code, addr) ==
    LET has == addr \in DOMAIN finish_jobs
        act == IF has THEN JobAt(finish_jobs, addr) ELSE NoneAction
        st1 == IF has THEN [Ctl EXCEPT !.finish_jobs = TakeJob(@, addr)] ELSE Ctl
        failed == \/ act.k = "DropSem" /\ ~DropSemReleases(code)
                  \/ act.k = "CommandCallback"
        refill == ~failed /\ addr \in DOMAIN extra_works
    IN  /\ IF act.k = "SimpleResponse"
           THEN Send(act.ch, SimpleResponseValue(code), addr, code.v)
           ELSE UNCHANGED chan
        /\ sem' = IF act.k = "DropSem" /\ ~failed THEN sem + 1 ELSE sem
        /\ panicked' = IF act.k = "DropSem" /\ failed THEN "got fail signal on executing trb"
                       ELSE IF failed THEN "keep working request should not appear at here!"
                       ELSE IF act.k = "SimpleResponse" /\ SendResultPanics(chan[act.ch].rx)
                       THEN "called unwrap on the Err of a send"
                       ELSE IF UnknownAddressPanics(has)
                       THEN "no job under the address of the event"
                       ELSE panicked
        /\ SetCtl(IF refill THEN Refill(st1, addr) ELSE st1)
        /\ kfEv' = IF refill THEN kfEv + 1 ELSE kfEv
        /\ kfSucc' = IF refill /\ code.ok /\ code.v = Success THEN kfSucc + 1 ELSE kfSucc
        /\ UNCHANGED cmdRes

\* sender.send(cmp): the CommandCompletion as the event ring delivered it
ForwardCompletion_NoSlot(cmp) == [code |-> cmp.raw, slot |-> 0, addr |-> cmp.addr]

ForwardCompletion(cmp) == [code |-> cmp.raw, slot |-> cmp.slot, addr |-> cmp.addr]

mark_command_completed(addr, cmp) ==
    LET has == addr \in DOMAIN finish_jobs
        act == IF has THEN finish_jobs[addr] ELSE NoneAction
    IN  /\ finish_jobs' = IF has THEN MapDel(finish_jobs, addr) ELSE finish_jobs
        /\ cmdRes' = IF act.k = "CommandCallback" THEN ForwardCompletion(cmp) ELSE cmdRes
        /\ panicked' = IF has /\ act.k # "CommandCallback"
                       THEN "do not call command completion on transfer event!"
                       ELSE IF UnknownAddressPanics(has)
                       THEN "no job under the address of the event"
                       ELSE panicked
        /\ UNCHANGED <<rings, hwXfer, hwCmd, extra_works, chan, sem, kfEv, kfSucc>>

\* the event variants next to TransferEvent and CommandCompletion
OtherEvents ==
    {"PortStatusChange", "BandwidthRequest", "Doorbell", "HostController",
     "DeviceNotification", "MfindexWrap"}

OtherEvent(type) == [type |-> type, addr |-> 0, raw |-> Success, slot |-> 0]

\* the arms of the other variants: PortStatusChange is logged, the rest are
\* todo!()
other_event(e) ==
    /\ panicked' = IF e.type = "PortStatusChange" THEN panicked
                   ELSE "not yet implemented"
    /\ UNCHANGED <<rings, hwXfer, hwCmd, finish_jobs, extra_works, chan, sem, kfEv,
                   kfSucc, cmdRes>>

\* EventRing::next: the event in the dequeue slot when the slot carries the
\* consumer cycle, the ring advanced past it (the cycle toggled at the end of
\* the segment); None and the ring as it was otherwise
EventRingNext(er) ==
    LET wraps == er.idx + 1 = EventLen
    IN  IF er.trbs[er.idx].cyc = er.cycle
        THEN [some |-> TRUE, ev |-> er.trbs[er.idx].ev,
              ring |-> [er EXCEPT !.idx = IF wraps THEN 0 ELSE @ + 1,
                                  !.cycle = IF wraps THEN ~@ ELSE @]]
        ELSE [some |-> FALSE, ev |-> NoEvent, ring |-> er]

\* EventRing::erdp: the dequeue pointer, as an index into the segment
EventRingErdp(er) == er.idx

\* update_erdp: ERDP <- event.erdp()
update_erdp_Base(er) == 0

update_erdp(er) == EventRingErdp(er)

\* on_event_arrived once async_next has returned e: the match on the variant
handle_event(e) ==
    /\ panicked = ""
    /\ evq' = Tail(evq)
    /\ IF e.type = "TransferEvent"
       THEN mark_transfer_completed(CompletionCodeOf(e.raw), e.addr)
       ELSE IF e.type = "CommandCompletion"
       THEN mark_command_completed(e.addr, e)
       ELSE other_event(e)
    /\ UNCHANGED <<devState, stReaders, slotId, descriptor, queue, cpc, cloc,
                   dpc, dcur, dslot, ep0Mps, hwSlots, evalLog>>
    /\ UNCHANGED <<stepVars, bootVars, ctxVars, enq, muxVars>>

\* one iteration of the event loop: take the next event, handle it, update
\* ERDP; the slots of the event ring are not followed
on_event_arrived ==
    /\ evq # << >>
    /\ handle_event(Head(evq))
    /\ UNCHANGED <<event, erdp>>

\* the iteration with next() called on a copy of the ring, as
\* event.get().read_volatile().next() does: the advance is lost
on_event_arrived_ring_Copy ==
    /\ EventRingNext(event).some
    /\ handle_event(EventRingNext(event).ev)
    /\ event' = event
    /\ erdp' = IF panicked' = "" THEN update_erdp(event') ELSE erdp

\* the same iteration on the slots of the event ring: async_next returns when
\* next() finds an event; update_erdp is reached unless the match panicked
on_event_arrived_ring ==
    /\ EventRingNext(event).some
    /\ handle_event(EventRingNext(event).ev)
    /\ event' = EventRingNext(event).ring
    /\ erdp' = IF panicked' = "" THEN update_erdp(event') ELSE erdp

(***************************************************************************)
(* The controller hardware.                                                *)
(***************************************************************************)
\* the completions a command can get
CmdOutcomes(cmd) ==
    IF cmd.kind = "EnableSlot"
    THEN {[raw |-> NoSlotsAvailableError, slot |-> 0]} \cup
         (IF hwSlots < MaxSlots THEN {[raw |-> Success, slot |-> hwSlots + 1]} ELSE {})
    ELSE {[raw |-> Success, slot |-> cmd.slot], [raw |-> ParameterError, slot |-> cmd.slot]}

\* the controller completes the oldest command and writes its CommandCompletion
HwCommand ==
    /\ panicked = ""
    /\ hwCmd # << >>
    /\ \E o \in CmdOutcomes(Head(hwCmd)) :
          /\ evq' = Append(evq, CommandCompletion(Head(hwCmd).addr, o.raw, o.slot))
          /\ hwSlots' = IF Head(hwCmd).kind = "EnableSlot" /\ o.raw = Success
                        THEN hwSlots + 1 ELSE hwSlots
    /\ hwCmd' = Tail(hwCmd)
    /\ UNCHANGED <<devVars, callVars, dispVars, rings, ep0Mps, finish_jobs,
                   extra_works, hwXfer, logVars, panicked>>
    /\ UNCHANGED <<stepVars, bootVars, ctxVars, ringVars, muxVars>>

\* TransferEvents of interrupt endpoints that wait in the event ring
IntEventsQueued ==
    Cardinality({i \in 1..Len(evq) : evq[i].type = "TransferEvent"
                                      /\ (evq[i].addr \div 1024) % 32 # CONTROL_DCI})

\* the controller completes the oldest TD of an endpoint and writes a
\* TransferEvent that points at the TD's last TRB
HwTransfer ==
    /\ panicked = ""
    /\ \E r \in RingIds, raw \in XferCodes :
          /\ hwXfer[r] # << >>
          /\ r % 32 # CONTROL_DCI => kfEv + IntEventsQueued < MaxKf
          /\ evq' = Append(evq, TransferEvent(Head(hwXfer[r]), raw))
          /\ hwXfer' = [hwXfer EXCEPT ![r] = Tail(@)]
    /\ UNCHANGED <<devVars, callVars, dispVars, rings, ep0Mps, finish_jobs,
                   extra_works, hwCmd, hwSlots, evalLog, kfEv, kfSucc, panicked>>
    /\ UNCHANGED <<stepVars, bootVars, ctxVars, ringVars, muxVars>>

(***************************************************************************)
(* The dispatcher (run_once, post_transfer, assign_address_device).        *)
(***************************************************************************)
\* CompleteAction -> XHCICompleteAction (cmp.into())
ActionOf_GuardLost(req) == Action(IF req.cmp = "DropSem" THEN "NOOP" ELSE req.cmp, req.ch)

ActionOf(req) == Action(req.cmp, req.ch)

\* assert_eq!(completion code, RequestResult::Success) after a command
AssertSuccess_Skipped(code) == TRUE

AssertSuccess(code) == code = Success

\* if let Ok(Ok(RequestResult::Success)) = self.post_control_transfer(..)
BasicDescOk_AnyOk(val) == val.ok

BasicDescOk(val) == val = [ok |-> TRUE, v |-> Success]

\* OnceCell::set: the first value stays (0 is the empty cell)
OnceCellSet_Overwrite(cell, v) == v

OnceCellSet_Lost(cell, v) == cell

OnceCellSet(cell, v) == IF cell = 0 THEN v ELSE cell

\* fn parse_default_max_packet_size_from_speed; 0 stands for unimplemented!()
parse_default_max_packet_size_from_speed(port_speed) ==
    CASE port_speed \in {1, 3} -> 64
      [] port_speed = 2 -> 8
      [] port_speed = 4 -> 512
      [] OTHER -> 0

\* post_transfer for the operations that finish without an await that suspends
post_transfer(req) ==
    CASE req.op = "Control" ->
            IF slotId = 0
            THEN /\ panicked' = "slot_id read before it is set"
                 /\ UNCHANGED <<rings, hwXfer, hwCmd, finish_jobs, extra_works, chan>>
            ELSE /\ SetCtl(post_control_transfer(Ctl, req, ActionOf(req), slotId))
                 /\ chan' = IF req.cmp = "SimpleResponse"
                            THEN [chan EXCEPT ![req.ch].addr =
                                     control_transfer(Ctl, slotId, req).key]
                            ELSE chan
                 /\ UNCHANGED panicked
      [] req.op = "Interrupt" /\ req.extra = "NOOP" ->
            IF slotId = 0
            THEN /\ panicked' = "slot_id read before it is set"
                 /\ UNCHANGED <<rings, hwXfer, hwCmd, finish_jobs, extra_works, chan>>
            ELSE /\ SetCtl(post_interrupt_transfer(Ctl, req, ActionOf(req), slotId).st)
                 /\ chan' = IF req.cmp = "SimpleResponse"
                            THEN [chan EXCEPT ![req.ch].addr =
                                     interrupt_transfer(Ctl, slotId, req).key]
                            ELSE chan
                 /\ UNCHANGED panicked
      [] req.op = "Interrupt" /\ req.extra = "KeepFill" ->
            IF slotId = 0
            THEN /\ panicked' = "slot_id read before it is set"
                 /\ UNCHANGED <<rings, hwXfer, hwCmd, finish_jobs, extra_works, chan>>
            ELSE /\ SetCtl(post_keepfill(Ctl, req, slotId))
                 /\ UNCHANGED <<chan, panicked>>
      [] req.op = "EnableFunction" ->
            /\ panicked' = "slot_id read before it is set"
            /\ UNCHANGED <<rings, hwXfer, hwCmd, finish_jobs, extra_works, chan>>
      [] req.op \in {"Bulk", "Isoch"} ->
            /\ panicked' = "not yet implemented"
            /\ UNCHANGED <<rings, hwXfer, hwCmd, finish_jobs, extra_works, chan>>
      \* the NOOP arm posts nothing; req goes out of scope at the end of
      \* post_transfer and the sender of a SimpleResponse is dropped unsent
      [] OTHER ->
            /\ chan' = IF req.cmp = "SimpleResponse"
                       THEN [chan EXCEPT ![req.ch] = UsedChan("canceled")]
                       ELSE chan
            /\ UNCHANGED <<rings, hwXfer, hwCmd, finish_jobs, extra_works, panicked>>

\* setup_endpoint: the endpoint's transfer ring is created or fetched and its
\* address written to the input context
setup_endpoint(rs, slot, dci) == write_transfer_ring(rs, slot, dci)

\* the receivers run_once builds a pop future for
Receivers == 1..Len(requests)

\* the queue behind the k-th receiver; a device found after the second never
\* has a request pushed
QueueOf(k) == IF k = 1 THEN queue ELSE IF k = 2 THEN queue2 ELSE << >>

\* run_once returns once every receiver's stream has yielded and the closure
\* of for_each has run for each item; run_once_loop then calls it afresh
Repoll(done) == IF done = Receivers THEN {} ELSE done

\* run_once: one pop future per receiver, merged by select_all; for_each hands
\* each request popped to post_transfer.  For InitializeDevice the dispatcher
\* goes into assign_address_device and is suspended in enable_slot's
\* post_command.
run_once ==
    /\ panicked = ""
    /\ dpc = "idle"
    /\ \E k \in Receivers \ polled :
         /\ QueueOf(k) # << >>
         /\ queue' = IF k = 1 THEN Tail(queue) ELSE queue
         /\ queue2' = IF k = 2 THEN Tail(queue2) ELSE queue2
         /\ LET req == Head(QueueOf(k))
            IN  IF req.op = "InitializeDevice"
                THEN /\ SetCtl(post_command(Ctl, "EnableSlot", 0))
                     /\ dpc' = "enable_slot"
                     /\ dcur' = req
                     /\ polled' = polled \cup {k}
                     /\ UNCHANGED <<chan, panicked, ep_ctx>>
                ELSE IF req.op = "EnableFunction" /\ slotId # 0
                THEN /\ SetCtl(post_command(
                               [Ctl EXCEPT !.rings = setup_endpoint(@, slotId, IntDci)],
                               "ConfigureEndpoint", slotId))
                     /\ ep_ctx' = MapPut(ep_ctx, RingNo(slotId, IntDci),
                                         SetupEndpointContext(
                                             setup_endpoint(rings, slotId, IntDci),
                                             slotId, IntDci))
                     /\ dpc' = "configure_endpoint"
                     /\ dcur' = req
                     /\ polled' = polled \cup {k}
                     /\ UNCHANGED <<chan, panicked>>
                ELSE /\ post_transfer(req)
                     /\ polled' = Repoll(polled \cup {k})
                     /\ UNCHANGED <<dpc, dcur, ep_ctx>>
    /\ UNCHANGED <<devState, stReaders, slotId, descriptor, sem, cpc, cloc, dslot,
                   cmdRes, ep0Mps, hwSlots, evq, logVars, dcbaa>>
    /\ UNCHANGED <<stepVars, bootVars, ringVars>>

\* assign_address_device, from enable_slot's completion to the await of the
\* AddressDevice command
AssignEnableSlotDone ==
    /\ panicked = ""
    /\ dpc = "enable_slot"
    /\ cmdRes # NoCmdRes
    /\ cmdRes' = NoCmdRes
    /\ IF ~AssertSuccess(cmdRes.code)
       THEN /\ panicked' = "enable slot failed!"
            /\ UNCHANGED <<slotId, dslot, rings, hwCmd, finish_jobs, ep0Mps, dpc,
                           ctxVars>>
       ELSE \E port_speed \in PortSpeeds :
              LET slot == cmdRes.slot
                  mps == parse_default_max_packet_size_from_speed(port_speed)
                  st == [Ctl EXCEPT !.rings =
                            MapPut(@, RingNo(slot, CONTROL_DCI), NewRing(TRUE))]
              IN  /\ slotId' = OnceCellSet(slotId, slot)
                  /\ dslot' = slot
                  /\ dcbaa' = new_slot(dcbaa, slot)
                  /\ IF mps = 0
                     THEN /\ panicked' = "not implemented: PSI"
                          /\ rings' = st.rings
                          /\ UNCHANGED <<hwCmd, finish_jobs, ep0Mps, dpc, ep_ctx>>
                     ELSE /\ ep0Mps' = [ep0Mps EXCEPT ![slot] = mps]
                          /\ ep_ctx' = MapPut(ep_ctx, RingNo(slot, CONTROL_DCI),
                                              Endpoint0Context(st.rings, slot))
                          /\ LET st2 == post_command(st, "AddressDevice", slot)
                             IN  /\ rings' = st2.rings
                                 /\ hwCmd' = st2.hwCmd
                                 /\ finish_jobs' = st2.finish_jobs
                          /\ dpc' = "address_device"
                          /\ UNCHANGED panicked
    /\ UNCHANGED <<devState, stReaders, descriptor, sem, queue, callVars, dcur,
                   hwXfer, extra_works, hwSlots, evq, logVars>>
    /\ UNCHANGED <<stepVars, bootVars, ringVars, muxVars>>

\* the 8-byte GetDescriptor(Device) assign_address_device posts itself
BasicDescRequest ==
    Request("Control", "NOOP", "SimpleResponse", DispCh, "In", FALSE, "buffer8", 0)

\* from AddressDevice's completion to the await of the descriptor's one-shot
AssignAddressDone ==
    /\ panicked = ""
    /\ dpc = "address_device"
    /\ cmdRes # NoCmdRes
    /\ cmdRes' = NoCmdRes
    /\ IF ~AssertSuccess(cmdRes.code)
       THEN /\ panicked' = "address device failed!"
            /\ UNCHANGED <<rings, hwXfer, finish_jobs, chan, dpc>>
       ELSE /\ LET st == post_control_transfer(Ctl, BasicDescRequest,
                                               ActionOf(BasicDescRequest), slotId)
               IN  /\ rings' = st.rings
                   /\ hwXfer' = st.hwXfer
                   /\ finish_jobs' = st.finish_jobs
            /\ chan' = [chan EXCEPT ![DispCh] =
                          [NoChan EXCEPT !.st = "open", !.rx = TRUE,
                              !.addr = control_transfer(Ctl, slotId, BasicDescRequest).key]]
            /\ dpc' = "basic_desc"
            /\ UNCHANGED panicked
    /\ UNCHANGED <<devVars, cpc, cloc, dcur, dslot, ep0Mps, extra_works, hwCmd,
                   hwSlots, evq, logVars>>
    /\ UNCHANGED <<stepVars, bootVars, ctxVars, ringVars, muxVars>>

\* data.last().map(|len| if *len == 0 { 8u8 } else { *len })
ActualSpeed_Raw(byte7) == byte7

ActualSpeed(byte7) == IF byte7 = 0 THEN 8 ELSE byte7

\* from the descriptor's one-shot to the await of the EvaluateContext command
AssignDescriptorDone ==
    /\ panicked = ""
    /\ dpc = "basic_desc"
    /\ chan[DispCh].st = "sent"
    /\ chan' = [chan EXCEPT ![DispCh] = NoChan]
    /\ IF ~BasicDescOk(chan[DispCh].val)
       THEN /\ panicked' = "get basic desc failed!"
            /\ UNCHANGED <<rings, hwCmd, finish_jobs, ep0Mps, dpc, evalLog>>
       ELSE \E byte7 \in Byte7Vals :
              /\ ep0Mps' = [ep0Mps EXCEPT ![dslot] = ActualSpeed(byte7)]
              /\ LET st == post_command(Ctl, "EvaluateContext", dslot)
                 IN  /\ rings' = st.rings
                     /\ hwCmd' = st.hwCmd
                     /\ finish_jobs' = st.finish_jobs
              /\ evalLog' = [byte7 |-> byte7, mps |-> ep0Mps'[dslot], slot |-> dslot]
              /\ dpc' = "evaluate_context"
              /\ UNCHANGED panicked
    /\ UNCHANGED <<devVars, cpc, cloc, dcur, dslot, cmdRes, hwXfer, extra_works,
                   hwSlots, evq, kfEv, kfSucc>>
    /\ UNCHANGED <<stepVars, bootVars, ctxVars, ringVars, muxVars>>

\* EvaluateContext's completion: assign_address_device returns and the
\* InitializeDevice arm of post_transfer drops the guard the request carried
AssignEvaluateDone ==
    /\ panicked = ""
    /\ dpc = "evaluate_context"
    /\ cmdRes # NoCmdRes
    /\ cmdRes' = NoCmdRes
    /\ IF ~AssertSuccess(cmdRes.code)
       THEN /\ panicked' = "evaluate context failed!"
            /\ UNCHANGED <<sem, dpc, dcur, polled>>
       ELSE /\ sem' = IF dcur.cmp = "DropSem" THEN sem + 1 ELSE sem
            /\ dpc' = "idle"
            /\ dcur' = NoRequest
            /\ polled' = Repoll(polled)
            /\ UNCHANGED panicked
    /\ UNCHANGED <<devState, stReaders, slotId, descriptor, queue, callVars, dslot,
                   ctlVars, hwVars, logVars>>
    /\ UNCHANGED <<stepVars, bootVars, ctxVars, ringVars, queue2>>

\* post_transfer, the EnableFunction arm after enable_function's
\* ConfigureEndpoint command completed: the guard the request carried is dropped
EnableFunctionDone ==
    /\ panicked = ""
    /\ dpc = "configure_endpoint"
    /\ cmdRes # NoCmdRes
    /\ cmdRes' = NoCmdRes
    /\ IF ~AssertSuccess(cmdRes.code)
       THEN /\ panicked' = "configure endpoint failed!"
            /\ UNCHANGED <<sem, dpc, dcur, polled>>
       ELSE /\ sem' = IF dcur.cmp = "DropSem" THEN sem + 1 ELSE sem
            /\ dpc' = "idle"
            /\ dcur' = NoRequest
            /\ polled' = Repoll(polled)
            /\ UNCHANGED panicked
    /\ UNCHANGED <<devState, stReaders, slotId, descriptor, queue, callVars, dslot,
                   ctlVars, hwVars, logVars>>
    /\ UNCHANGED <<stepVars, bootVars, ctxVars, ringVars, queue2>>

(***************************************************************************)
(* The device facade (USBDevice).                                          *)
(***************************************************************************)
\* post_usb_request: push to the bounded queue; the producer is suspended
\* while the queue is full
post_usb_request_Overwrite(request) ==
    queue' = IF Len(queue) < QueueCap THEN Append(queue, request)
             ELSE Append(Tail(queue), request)

post_usb_request(request) ==
    /\ Len(queue) < QueueCap
    /\ queue' = Append(queue, request)

FreeChans == {h \in Chans : chan[h].st = "unused"}

DriverOps == {"Control", "Interrupt"}

\* the request request_once builds for an operation
OnceRequest(op, ch) ==
    IF op = "Control"
    THEN Request("Control", "NOOP", "SimpleResponse", ch, "none", TRUE, "none", 0)
    ELSE IF op = "NOOP"
    THEN Request("NOOP", "NOOP", "SimpleResponse", ch, "none", FALSE, "none", 0)
    ELSE Request("Interrupt", "NOOP", "SimpleResponse", ch, "none", FALSE,
                 "hid_response", IntDci)

\* lib.rs, inner_stage_3: request_assign is called once for the device
StartAssign ==
    /\ panicked = ""
    /\ cpc["assign"] = "idle"
    /\ cpc' = [cpc EXCEPT !["assign"] = "acquire1"]
    /\ cloc' = [cloc EXCEPT !["assign"] = [NoLoc EXCEPT !.via = "direct"]]
    /\ UNCHANGED <<devVars, chan, dispVars, ctlVars, hwVars, logVars, panicked>>
    /\ UNCHANGED <<stepVars, bootVars, ctxVars, ringVars, muxVars>>

\* request_once, check_self_status: the state is read under a read guard that
\* lives to the end of the match; Probed calls request_assign inside the match.
\* Drivers are started by post_initialized_device, which follows the return of
\* request_assign (lib.rs:129-133); the other way in is a request_once on a
\* device nobody has asked to assign yet.
check_self_status(c) == IF devState = "Probed" THEN stReaders \cup {c} ELSE stReaders

StartOnce(c) ==
    /\ panicked = ""
    /\ cpc[c] = "idle"
    /\ cpc["assign"] = "done" \/ (cpc["assign"] = "idle" /\ devState = "Probed")
    /\ FreeChans # {}
    /\ \E op \in DriverOps :
          cloc' = [cloc EXCEPT ![c] = [NoLoc EXCEPT !.via = "once", !.op = op]]
    /\ stReaders' = check_self_status(c)
    /\ cpc' = [cpc EXCEPT ![c] = IF devState = "Probed" THEN "acquire1" ELSE "push"]
    /\ UNCHANGED <<devState, slotId, descriptor, sem, queue, chan, dispVars, ctlVars,
                   hwVars, logVars, panicked>>
    /\ UNCHANGED <<stepVars, bootVars, ctxVars, ringVars, muxVars>>

\* request_assign, line 187: configure_sem.acquire_arc()
AssignAcquire1(c) ==
    /\ panicked = ""
    /\ cpc[c] = "acquire1"
    /\ sem > 0
    /\ sem' = sem - 1
    /\ cpc' = [cpc EXCEPT ![c] = "push_init"]
    /\ UNCHANGED <<devState, stReaders, slotId, descriptor, queue, cloc, chan,
                   dispVars, ctlVars, hwVars, logVars, panicked>>
    /\ UNCHANGED <<stepVars, bootVars, ctxVars, ringVars, muxVars>>

\* lines 188-193: InitializeDevice is pushed with the guard as DropSem
AssignPushInit(c) ==
    /\ panicked = ""
    /\ cpc[c] = "push_init"
    /\ post_usb_request(Request("InitializeDevice", "NOOP", "DropSem", DispCh,
                                "none", FALSE, "none", 0))
    /\ cpc' = [cpc EXCEPT ![c] = "acquire2"]
    /\ UNCHANGED <<devState, stReaders, slotId, descriptor, sem, cloc, chan,
                   dispVars, ctlVars, hwVars, logVars, panicked>>
    /\ UNCHANGED <<stepVars, bootVars, ctxVars, ringVars, muxVars>>

\* line 195: configure_sem.acquire_arc() again
AssignAcquire2(c) ==
    /\ panicked = ""
    /\ cpc[c] = "acquire2"
    /\ sem > 0
    /\ sem' = sem - 1
    /\ cpc' = [cpc EXCEPT ![c] = "write_state"]
    /\ UNCHANGED <<devState, stReaders, slotId, descriptor, queue, cloc, chan,
                   dispVars, ctlVars, hwVars, logVars, panicked>>
    /\ UNCHANGED <<stepVars, bootVars, ctxVars, ringVars, muxVars>>

\* line 196: *self.state.write().await = Assigned; a writer waits for every
\* read guard to be dropped
AssignWriteState(c) ==
    /\ panicked = ""
    /\ cpc[c] = "write_state"
    /\ stReaders = {}
    /\ devState' = "Assigned"
    /\ cpc' = [cpc EXCEPT ![c] = "push_device"]
    /\ UNCHANGED <<stReaders, slotId, descriptor, sem, queue, cloc, chan,
                   dispVars, ctlVars, hwVars, logVars, panicked>>
    /\ UNCHANGED <<stepVars, bootVars, ctxVars, ringVars, muxVars>>

\* lines 205-225: GetDescriptor(Device) is pushed with the guard as DropSem
AssignPushDevice(c) ==
    /\ panicked = ""
    /\ cpc[c] = "push_device"
    /\ post_usb_request(Request("Control", "NOOP", "DropSem", DispCh, "In", FALSE,
                                "buffer_device", 0))
    /\ cpc' = [cpc EXCEPT ![c] = "acquire3"]
    /\ UNCHANGED <<devState, stReaders, slotId, descriptor, sem, cloc, chan,
                   dispVars, ctlVars, hwVars, logVars, panicked>>
    /\ UNCHANGED <<stepVars, bootVars, ctxVars, ringVars, muxVars>>

\* lines 226-235: acquire and drop, peek_device_desc(..).unwrap() (the device
\* descriptor gives num_configurations), acquire_arc for the loop
AssignPeekDevice(c) ==
    /\ panicked = ""
    /\ cpc[c] = "acquire3"
    /\ sem > 0
    /\ \/ /\ \E n \in 0..MaxCfg : cloc' = [cloc EXCEPT ![c].n = n, ![c].i = 0]
          /\ sem' = sem - 1
          /\ cpc' = [cpc EXCEPT ![c] = "loop"]
          /\ UNCHANGED panicked
       \/ /\ panicked' = "peek_device_desc: unwrap on an undecodable descriptor"
          /\ UNCHANGED <<sem, cpc, cloc>>
    /\ UNCHANGED <<devState, stReaders, slotId, descriptor, queue, chan,
                   dispVars, ctlVars, hwVars, logVars>>
    /\ UNCHANGED <<stepVars, bootVars, ctxVars, ringVars, muxVars>>

\* let _ = self.descriptor.set(..): a OnceCell keeps its first value
DescriptorSet(n, cfgs) ==
    IF descriptor.set THEN descriptor ELSE [set |-> TRUE, ncfg |-> n, cfgs |-> cfgs]

\* lines 241-282: the head of the loop over the configurations.  With an
\* index left, GetDescriptor(Configuration, index) is pushed with the guard;
\* after the last one the descriptor cell is set and request_assign returns,
\* dropping the guard it holds (and check_self_status its read guard)
AssignLoop(c) ==
    /\ panicked = ""
    /\ cpc[c] = "loop"
    /\ IF cloc[c].i < cloc[c].n
       THEN /\ post_usb_request(Request("Control", "NOOP", "DropSem", DispCh, "In",
                                        FALSE, "buffer", 0))
            /\ cpc' = [cpc EXCEPT ![c] = "acquire_cfg"]
            /\ UNCHANGED <<descriptor, sem, stReaders, cloc>>
       ELSE /\ descriptor' = DescriptorSet(cloc[c].n, cloc[c].cfgs)
            /\ sem' = sem + 1
            /\ stReaders' = stReaders \ {c}
            /\ cpc' = [cpc EXCEPT ![c] = IF cloc[c].via = "once" THEN "push" ELSE "done"]
            /\ cloc' = [cloc EXCEPT ![c].n = 0, ![c].i = 0, ![c].cfgs = {}]
            /\ UNCHANGED queue
    /\ UNCHANGED <<devState, slotId, chan, dispVars, ctlVars, hwVars, logVars, panicked>>
    /\ UNCHANGED <<stepVars, bootVars, ctxVars, ringVars, muxVars>>

\* if let Ok(cfg) = parser.parse_config(..) { cfgs.push(cfg.0) }
ParsedConfigs(cfgs, index, parsed) == IF parsed THEN cfgs \cup {index} ELSE cfgs

\* lines 266-269: acquire_arc after the push, then parse_config of the buffer
AssignParseConfig(c) ==
    /\ panicked = ""
    /\ cpc[c] = "acquire_cfg"
    /\ sem > 0
    /\ sem' = sem - 1
    /\ \E parsed \in BOOLEAN :
          cloc' = [cloc EXCEPT ![c].cfgs = ParsedConfigs(@, cloc[c].i, parsed),
                               ![c].i = @ + 1]
    /\ cpc' = [cpc EXCEPT ![c] = "loop"]
    /\ UNCHANGED <<devState, stReaders, slotId, descriptor, queue, chan,
                   dispVars, ctlVars, hwVars, logVars, panicked>>
    /\ UNCHANGED <<stepVars, bootVars, ctxVars, ringVars, muxVars>>

\* request_once, lines 146-152: a fresh one-shot, the request is pushed
OncePush(c) ==
    /\ panicked = ""
    /\ cpc[c] = "push"
    /\ \E h \in FreeChans :
          /\ \A g \in FreeChans : h <= g
          /\ post_usb_request(OnceRequest(cloc[c].op, h))
          /\ chan' = [chan EXCEPT ![h] = [NoChan EXCEPT !.st = "open", !.rx = TRUE]]
          /\ cloc' = [cloc EXCEPT ![c].ch = h]
    /\ cpc' = [cpc EXCEPT ![c] = "await"]
    /\ UNCHANGED <<devState, stReaders, slotId, descriptor, sem,
                   dispVars, ctlVars, hwVars, logVars, panicked>>
    /\ UNCHANGED <<stepVars, bootVars, ctxVars, ringVars, muxVars>>

\* line 154: receiver.await.unwrap(): the caller gets the value that was sent
OnceReturn(c) ==
    /\ panicked = ""
    /\ cpc[c] = "await"
    /\ chan[cloc[c].ch].st = "sent"
    /\ chan' = [chan EXCEPT ![cloc[c].ch] = UsedChan("returned")]
    /\ cpc' = [cpc EXCEPT ![c] = "idle"]
    /\ cloc' = [cloc EXCEPT ![c] = NoLoc]
    /\ UNCHANGED <<devVars, dispVars, ctlVars, hwVars, logVars, panicked>>
    /\ UNCHANGED <<stepVars, bootVars, ctxVars, ringVars, muxVars>>

\* the request_once future is dropped while it waits: its receiver is dropped
OnceDropped(c) ==
    /\ panicked = ""
    /\ cpc[c] = "await"
    /\ chan[cloc[c].ch].st = "open"
    /\ chan' = [chan EXCEPT ![cloc[c].ch].rx = FALSE]
    /\ cpc' = [cpc EXCEPT ![c] = "idle"]
    /\ cloc' = [cloc EXCEPT ![c] = NoLoc]
    /\ UNCHANGED <<devVars, dispVars, ctlVars, hwVars, logVars, panicked>>
    /\ UNCHANGED <<stepVars, bootVars, ctxVars, ringVars, muxVars>>

\* USBDevice::enable_function (hid_mouse/mod.rs:152-154): the permit is
\* acquired and the EnableFunction request is pushed with it as DropSem
EnableFunctionRequest ==
    Request("EnableFunction", "NOOP", "DropSem", DispCh, "none", FALSE, "none", IntDci)

FunctionEnabling ==
    \/ \E i \in 1..Len(queue) : queue[i].op = "EnableFunction"
    \/ dcur.op = "EnableFunction"
    \/ \E c \in Drivers : cpc[c] = "push_function"

FunctionEnabled ==
    slotId # 0 /\ RingNo(slotId, IntDci) \in DOMAIN rings

StartEnableFunction(c) ==
    /\ panicked = ""
    /\ cpc[c] = "idle"
    /\ cpc["assign"] = "done"
    /\ ~FunctionEnabling /\ ~FunctionEnabled
    /\ sem > 0
    /\ sem' = sem - 1
    /\ cpc' = [cpc EXCEPT ![c] = "push_function"]
    /\ UNCHANGED <<devState, stReaders, slotId, descriptor, queue, cloc, chan,
                   dispVars, ctlVars, hwVars, logVars, panicked>>
    /\ UNCHANGED <<stepVars, bootVars, ctxVars, ringVars, muxVars>>

PushEnableFunction(c) ==
    /\ panicked = ""
    /\ cpc[c] = "push_function"
    /\ post_usb_request(EnableFunctionRequest)
    /\ cpc' = [cpc EXCEPT ![c] = "idle"]
    /\ UNCHANGED <<devState, stReaders, slotId, descriptor, sem, cloc, chan,
                   dispVars, ctlVars, hwVars, logVars, panicked>>
    /\ UNCHANGED <<stepVars, bootVars, ctxVars, ringVars, muxVars>>

KeepFillRequest ==
    Request("Interrupt", "KeepFill", "NOOP", DispCh, "none", FALSE, "keep_buffer", IntDci)

KeepFillPushed ==
    \/ \E i \in 1..Len(queue) : queue[i].extra = "KeepFill"
    \/ \E a \in DOMAIN extra_works : TRUE
    \/ kfEv > 0

\* a keep-fill interrupt request is pushed for an assigned device, once
PushKeepFill(c) ==
    /\ panicked = ""
    /\ cpc[c] = "idle"
    /\ devState = "Assigned"
    /\ ~KeepFillPushed
    /\ post_usb_request(KeepFillRequest)
    /\ UNCHANGED <<devState, stReaders, slotId, descriptor, sem, callVars,
                   dispVars, ctlVars, hwVars, logVars, panicked>>
    /\ UNCHANGED <<stepVars, bootVars, ctxVars, ringVars, muxVars>>

(***************************************************************************)
(* The system from construction: the enumeration of the device, then one   *)
(* driver (d1) that enables its function and issues one-shot requests.     *)
(***************************************************************************)
Next ==
    \/ StartAssign
    \/ StartOnce("d1")
    \/ \E c \in Callers : AssignAcquire1(c)
    \/ \E c \in Callers : AssignPushInit(c)
    \/ \E c \in Callers : AssignAcquire2(c)
    \/ \E c \in Callers : AssignWriteState(c)
    \/ \E c \in Callers : AssignPushDevice(c)
    \/ \E c \in Callers : AssignPeekDevice(c)
    \/ \E c \in Callers : AssignLoop(c)
    \/ \E c \in Callers : AssignParseConfig(c)
    \/ OncePush("d1")
    \/ OnceReturn("d1")
    \/ OnceDropped("d1")
    \/ StartEnableFunction("d1")
    \/ PushEnableFunction("d1")
    \/ run_once
    \/ EnableFunctionDone
    \/ AssignEnableSlotDone
    \/ AssignAddressDone
    \/ AssignDescriptorDone
    \/ AssignEvaluateDone
    \/ HwCommand
    \/ HwTransfer
    \/ on_event_arrived

Spec == Init /\ [][Next]_vars

(***************************************************************************)
(* Interrupt polling (scenario D): the system from the state in which      *)
(* request_assign has returned for a device that reports no configuration; *)
(* driver d2 polls the interrupt endpoint, driver d1 issues one-shot       *)
(* requests.                                                               *)
(***************************************************************************)
DeviceDescRequest ==
    Request("Control", "NOOP", "DropSem", DispCh, "In", FALSE, "buffer_device", 0)

\* the controller's rings after the enumeration: EnableSlot, new_slot,
\* AddressDevice, the 8-byte GetDescriptor, EvaluateContext, GetDescriptor(Device)
RingsAssigned ==
    LET st0 == [rings |-> [r \in {CmdRing} |-> NewRing(TRUE)],
                hwXfer |-> [r \in RingIds |-> << >>], hwCmd |-> << >>,
                finish_jobs |-> EmptyMap, extra_works |-> EmptyMap]
        st1 == post_command(st0, "EnableSlot", 0)
        st2 == [st1 EXCEPT !.rings = MapPut(@, RingNo(1, CONTROL_DCI), NewRing(TRUE))]
        st3 == post_command(st2, "AddressDevice", 1)
        st4 == post_control_transfer(st3, BasicDescRequest, ActionOf(BasicDescRequest), 1)
        st5 == post_command(st4, "EvaluateContext", 1)
        st6 == post_control_transfer(st5, DeviceDescRequest, ActionOf(DeviceDescRequest), 1)
    IN  st6.rings

\* the first device found, after request_assign returned
Enumerated ==
    /\ devState = "Assigned"
    /\ stReaders = {}
    /\ slotId = 1
    /\ descriptor = [set |-> TRUE, ncfg |-> 0, cfgs |-> {}]
    /\ sem = 1
    /\ queue = << >>
    /\ cpc = [c \in Callers |-> IF c = "assign" THEN "done" ELSE "idle"]
    /\ cloc = [c \in Callers |-> IF c = "assign" THEN [NoLoc EXCEPT !.via = "direct"]
                                                   ELSE NoLoc]
    /\ chan = [h \in AllChans |-> NoChan]
    /\ dpc = "idle"
    /\ dcur = NoRequest
    /\ dslot = 1
    /\ cmdRes = NoCmdRes
    /\ rings = RingsAssigned
    /\ ep0Mps = [s \in 1..MaxSlots |-> IF s = 1 THEN 64 ELSE 0]
    /\ hwCmd = << >>
    /\ hwXfer = [r \in RingIds |-> << >>]
    /\ hwSlots = 1
    /\ evq = << >>
    /\ finish_jobs = EmptyMap
    /\ extra_works = EmptyMap
    /\ panicked = ""
    /\ evalLog = [byte7 |-> 64, mps |-> 64, slot |-> 1]
    /\ kfEv = 0
    /\ kfSucc = 0
    /\ ppc = NoPost
    /\ dev_ctx = "free"
    /\ dcbaa = new_slot([s \in 1..MaxSlots |-> 0], 1)
    /\ ep_ctx = MapPut(EmptyMap, RingNo(1, CONTROL_DCI),
                       Endpoint0Context(MapPut(EmptyMap, RingNo(1, CONTROL_DCI),
                                               NewRing(TRUE)), 1))
    /\ event = NewEventRing
    /\ erdp = 0
    /\ enq = NoEnq

\* one device connected, at root port 0
InitAssigned == Enumerated /\ Booted({0})

NextKeep ==
    \/ StartOnce("d1")
    \/ OncePush("d1")
    \/ OnceReturn("d1")
    \/ OnceDropped("d1")
    \/ PushKeepFill("d2")
    \/ run_once
    \/ HwTransfer
    \/ on_event_arrived

SpecKeep == InitAssigned /\ [][NextKeep]_vars

(***************************************************************************)
(* One-shot requests of two drivers, from the same state.                  *)
(***************************************************************************)
NextOnce ==
    \/ \E c \in Drivers : StartOnce(c)
    \/ \E c \in Drivers : OncePush(c)
    \/ \E c \in Drivers : OnceReturn(c)
    \/ \E c \in Drivers : OnceDropped(c)
    \/ run_once
    \/ HwTransfer
    \/ on_event_arrived

SpecOnce == InitAssigned /\ [][NextOnce]_vars

(***************************************************************************)
(* The enumeration with a controller that also writes events the driver    *)
(* did not ask for: repeated, late or misdirected TransferEvents and       *)
(* CommandCompletions.                                                     *)
(***************************************************************************)
\* TRB pointers such an event carries: the first positions of the command
\* ring and of the device's control ring
StrayAddrs ==
    {TrbAddr(r, i) : r \in {CmdRing} \cup (IF slotId = 0 THEN {}
                                           ELSE {RingNo(slotId, CONTROL_DCI)}),
                     i \in 0..(MaxStrayIdx - 1)}

\* such an event is written while the event ring is empty, one at a time
HwStray ==
    /\ panicked = ""
    /\ evq = << >>
    /\ \E addr \in StrayAddrs :
          \/ evq' = Append(evq, TransferEvent(addr, Success))
          \/ evq' = Append(evq, CommandCompletion(addr, Success, MaxSlots))
    /\ UNCHANGED <<devVars, callVars, dispVars, ctlVars, hwCmd, hwXfer, hwSlots,
                   logVars, panicked>>
    /\ UNCHANGED <<stepVars, bootVars, ctxVars, ringVars, muxVars>>

\* the controller writes an event of another variant: a port changes its
\* status, or one of the events the driver has no handling for
HwOtherEvent ==
    /\ panicked = ""
    /\ evq = << >>
    /\ \E type \in OtherEvents : evq' = Append(evq, OtherEvent(type))
    /\ UNCHANGED <<devVars, callVars, dispVars, ctlVars, hwCmd, hwXfer, hwSlots,
                   logVars, panicked>>
    /\ UNCHANGED <<stepVars, bootVars, ctxVars, ringVars, muxVars>>

\* one-shot requests on the assigned device, with such events in between
NextEvents ==
    \/ StartOnce("d1")
    \/ OncePush("d1")
    \/ OnceReturn("d1")
    \/ run_once
    \/ HwTransfer
    \/ HwOtherEvent
    \/ on_event_arrived

SpecEvents == InitAssigned /\ [][NextEvents]_vars

(***************************************************************************)
(* The event ring slot by slot.  evq holds the events the controller has   *)
(* produced, oldest first; it writes them to the segment one at a time at  *)
(* its enqueue pointer, and holds an event back while the segment is full: *)
(* the slot after the enqueue pointer is the one ERDP points at.           *)
(***************************************************************************)
\* events in the segment that the consumer has not taken
InRing(er) == (er.enq - er.idx + EventLen) % EventLen

\* the segment is full for the controller
EventRingFull(er, dp) == (er.enq + 1) % EventLen = dp

\* the controller writes e with its producer cycle and advances
EventRingWrite(er, e) ==
    [er EXCEPT !.trbs[er.enq] = EventTrb(e, er.pcs),
               !.enq = (er.enq + 1) % EventLen,
               !.pcs = IF er.enq + 1 = EventLen THEN ~@ ELSE @]

\* the controller writes the oldest event it has not written yet
HwEventWrite ==
    /\ InRing(event) < Len(evq)
    /\ ~EventRingFull(event, erdp)
    /\ event' = EventRingWrite(event, evq[InRing(event) + 1])
    /\ UNCHANGED <<devVars, callVars, dispVars, ctlVars, hwVars, logVars, panicked>>
    /\ UNCHANGED <<stepVars, bootVars, ctxVars, erdp, enq, muxVars>>

\* one-shot requests on the assigned device; transfer events and events of
\* the other variants go through the segment
NextEventRing ==
    \/ StartOnce("d1")
    \/ OncePush("d1")
    \/ OnceReturn("d1")
    \/ run_once
    \/ HwTransfer
    \/ HwOtherEvent
    \/ HwEventWrite
    \/ on_event_arrived_ring

SpecEventRing == InitAssigned /\ [][NextEventRing]_vars

(***************************************************************************)
(* A ring on its own: enqueue after enqueue on a ring as Ring::new leaves  *)
(* it, with TRBs of either kind, for more than two laps of the ring.       *)
(***************************************************************************)
\* the TRBs enqueued
EnqueuedTrbs ==
    {[type |-> "Normal", buf |-> "buffer", flags |-> {"IOC"}, cyc |-> FALSE],
     [type |-> "Noop", buf |-> "none", flags |-> {}, cyc |-> FALSE]}

\* Ring::enque_command / enque_transfer: the TRB goes in at the enqueue index
\* and its physical address is returned
enque_trb ==
    /\ enq.k < MaxEnq
    /\ \E trb \in EnqueuedTrbs :
          LET after == RingEnqueue(enq.ring, trb)
              addr == TrbAddr(CmdRing, enq.ring.idx)
              wrapped == after.idx < enq.ring.idx
          IN  enq' = [ring |-> after, k |-> enq.k + 1,
                      wraps |-> IF wrapped THEN enq.wraps + 1 ELSE enq.wraps,
                      pass |-> IF enq.ring.idx = 0 THEN <<addr>>
                               ELSE Append(enq.pass, addr)]
    /\ UNCHANGED <<devVars, callVars, dispVars, ctlVars, hwVars, logVars, panicked>>
    /\ UNCHANGED <<stepVars, bootVars, ctxVars, event, erdp, muxVars>>

NextEnqueue == enque_trb

SpecEnqueue == Init /\ [][NextEnqueue]_vars

NextStray ==
    \/ StartAssign
    \/ AssignAcquire1("assign")
    \/ AssignPushInit("assign")
    \/ run_once
    \/ AssignEnableSlotDone
    \/ AssignAddressDone
    \/ AssignDescriptorDone
    \/ AssignEvaluateDone
    \/ HwCommand
    \/ HwTransfer
    \/ HwStray
    \/ on_event_arrived

SpecStray == Init /\ [][NextStray]_vars

(***************************************************************************)
(* Two devices behind the dispatcher.  The first is the device of the     *)
(* facade above; of the second, which was enumerated likewise, only the    *)
(* queue is kept.                                                          *)
(***************************************************************************)
\* operations request_no_response is called with
NoResponseOps == {"NOOP", "Bulk", "Isoch"}

\* USBRequest { operation, ExtraAction::default(), CompleteAction::default() }
NoResponseRequest(op) == Request(op, "NOOP", "NOOP", DispCh, "none", FALSE, "none", 0)

\* USBDevice::request_no_response on the first device
request_no_response(c) ==
    /\ panicked = ""
    /\ cpc[c] = "idle"
    /\ devState = "Assigned"
    /\ \E op \in NoResponseOps : post_usb_request(NoResponseRequest(op))
    /\ UNCHANGED <<devState, stReaders, slotId, descriptor, sem, callVars,
                   dispVars, ctlVars, hwVars, logVars, panicked>>
    /\ UNCHANGED <<stepVars, bootVars, ctxVars, ringVars, muxVars>>

\* USBDevice::request_no_response(NOOP) on the second device
request_no_response_second ==
    /\ panicked = ""
    /\ Len(requests) >= 2
    /\ Len(queue2) < QueueCap
    /\ queue2' = Append(queue2, NoResponseRequest("NOOP"))
    /\ UNCHANGED <<devVars, callVars, dispVars, ctlVars, hwVars, logVars, panicked,
                   stepVars, bootVars, ctxVars, ringVars, polled>>

\* both root ports had a device
InitMux == Enumerated /\ Booted({0, 1})

NextMux ==
    \/ request_no_response("d2")
    \/ request_no_response_second
    \/ StartOnce("d1")
    \/ OncePush("d1")
    \/ OnceReturn("d1")
    \/ OnceDropped("d1")
    \/ run_once
    \/ HwTransfer
    \/ on_event_arrived

SpecMux == InitMux /\ [][NextMux]_vars

\* the executor runs every task that can run (block_on(join!(..)), lib.rs), the
\* controller completes what it was handed, and a caller that has started
\* a call goes on with it; whether and when a device is given a further
\* request is up to its driver
FairMux ==
    /\ WF_vars(run_once)
    /\ WF_vars(on_event_arrived)
    /\ WF_vars(HwTransfer)
    /\ WF_vars(OncePush("d1"))
    /\ WF_vars(OnceReturn("d1"))

SpecMuxFair == SpecMux /\ FairMux

(***************************************************************************)
(* Bring-up: XHCIController::init against the controller's hardware.  The  *)
(* builder runs on the calling thread before any task exists; each busy    *)
(* wait is a step that the flag it polls enables.                          *)
(***************************************************************************)
\* nothing but the bring-up state moves
BootFrame ==
    UNCHANGED <<devVars, callVars, dispVars, ctlVars, hwVars, logVars, panicked,
                stepVars, muxVars, ctxVars, ringVars>>

\* the registers as firmware may have left them
PowerOnRegs(scratch, running, cnr) ==
    [ResetRegs(scratch) EXCEPT
        !.rs = running, !.hch = ~running, !.cnr = cnr,
        !.dcbaap = IF running THEN "firmware" ELSE "zero",
        !.crcr = [ptr |-> IF running THEN "firmware" ELSE "zero", rcs |-> running],
        !.iman_ie = running]

InitBoot ==
    /\ Constructed
    /\ \E scratch \in ScratchpadCounts, running \in BOOLEAN, cnr \in BOOLEAN :
         regs = PowerOnRegs(scratch, running, cnr)
    /\ ipc = InitSteps[1]
    /\ iport = 0
    /\ ports \in [Ports -> {[ccs |-> c, pr |-> FALSE, prc |-> FALSE, ped |-> c] :
                              c \in BOOLEAN}]
    /\ devices = << >>
    /\ requests = << >>
    /\ broadcasts = << >>
    /\ queue2 = << >>
    /\ polled = {}

\* fn chip_hardware_reset
chip_hardware_reset ==
    /\ \/ /\ ipc = "clear_run_stop"
          /\ regs' = [regs EXCEPT !.rs = FALSE]
       \/ /\ ipc = "wait_halted"
          /\ regs.hch
          /\ UNCHANGED regs
       \/ /\ ipc = "wait_ready"
          /\ ~regs.cnr
          /\ UNCHANGED regs
       \/ /\ ipc = "set_hcrst"
          /\ regs' = [regs EXCEPT !.hcrst = TRUE]
       \/ /\ ipc = "wait_hcrst"
          /\ ~regs.hcrst
          /\ UNCHANGED regs
       \/ /\ ipc = "wait_reset_done"
          /\ ~regs.hcrst /\ ~regs.cnr
          /\ UNCHANGED regs
    /\ ipc' = After(ipc)
    /\ UNCHANGED <<iport, ports, devices, requests, broadcasts>>
    /\ BootFrame

\* fn set_max_device_slots
set_max_device_slots ==
    /\ ipc = "set_max_device_slots"
    /\ regs' = [regs EXCEPT !.maxSlotsEn = MaxSlots]
    /\ ipc' = After(ipc)
    /\ UNCHANGED <<iport, ports, devices, requests, broadcasts>>
    /\ BootFrame

\* fn set_dcbaap
set_dcbaap ==
    /\ ipc = "set_dcbaap"
    /\ regs' = [regs EXCEPT !.dcbaap = "dcbaa"]
    /\ ipc' = After(ipc)
    /\ UNCHANGED <<iport, ports, devices, requests, broadcasts>>
    /\ BootFrame

\* fn set_cmd_ring
set_cmd_ring ==
    /\ ipc = "set_cmd_ring"
    /\ regs' = [regs EXCEPT !.crcr = CrcrOf(rings[CmdRing])]
    /\ ipc' = After(ipc)
    /\ UNCHANGED <<iport, ports, devices, requests, broadcasts>>
    /\ BootFrame

\* fn init_ir: interrupter 0
init_ir ==
    /\ ipc = "init_ir"
    /\ regs' = [regs EXCEPT !.inte = FALSE, !.erstsz = 1, !.erdp = "event_ring",
                            !.erstba = "erst", !.iman_ie = TRUE]
    /\ ipc' = After(ipc)
    /\ UNCHANGED <<iport, ports, devices, requests, broadcasts>>
    /\ BootFrame

\* setup_scratchpads with the array's address stored into a copy of the DCBAA
setup_scratchpads_Copy ==
    /\ ipc = "setup_scratchpads"
    /\ ipc' = After(ipc)
    /\ UNCHANGED <<regs, iport, ports, devices, requests, broadcasts>>
    /\ BootFrame

\* fn setup_scratchpads: nothing is installed when the controller asks for no
\* scratchpad buffer
setup_scratchpads ==
    /\ ipc = "setup_scratchpads"
    /\ regs' = IF regs.scratch = 0 THEN regs
               ELSE [regs EXCEPT !.dcbaa0 = "scratchpad_array"]
    /\ ipc' = After(ipc)
    /\ UNCHANGED <<iport, ports, devices, requests, broadcasts>>
    /\ BootFrame

\* fn start
start ==
    /\ \/ /\ ipc = "set_run_stop"
          /\ regs' = [regs EXCEPT !.rs = TRUE]
       \/ /\ ipc = "wait_running"
          /\ ~regs.hch
          /\ UNCHANGED regs
       \/ /\ ipc = "ring_doorbell"
          /\ regs' = [regs EXCEPT !.db0 = 1]
    /\ ipc' = After(ipc)
    /\ UNCHANGED <<iport, ports, devices, requests, broadcasts>>
    /\ BootFrame

\* fn reset_ports: the loop over the root ports
reset_ports ==
    /\ \/ /\ ipc = "reset_ports"
          /\ iport < MaxPorts
          /\ ports' = [ports EXCEPT ![iport].ped = FALSE, ![iport].pr = TRUE]
          /\ ipc' = After(ipc)
          /\ UNCHANGED iport
       \/ /\ ipc = "wait_port_reset"
          /\ ~ports[iport].pr
          /\ iport' = iport + 1
          /\ ipc' = IF iport + 1 < MaxPorts THEN "reset_ports" ELSE After(ipc)
          /\ UNCHANGED ports
    /\ UNCHANGED <<regs, devices, requests, broadcasts>>
    /\ BootFrame

\* fn initial_probe
initial_probe ==
    /\ ipc = "initial_probe"
    /\ LET found == Probe(ports, 0, NoProbe)
       IN  /\ devices' = found.devices
           /\ requests' = found.requests
           /\ broadcasts' = found.broadcasts
    /\ ipc' = After(ipc)
    /\ UNCHANGED <<regs, iport, ports>>
    /\ BootFrame

\* the controller halts after Run/Stop is cleared
HwHalt ==
    /\ ~regs.rs /\ ~regs.hch /\ ~regs.hcrst
    /\ regs' = [regs EXCEPT !.hch = TRUE]
    /\ UNCHANGED <<ipc, iport, ports, devices, requests, broadcasts>>
    /\ BootFrame

\* the controller runs after Run/Stop is set
HwRun ==
    /\ regs.rs /\ regs.hch /\ ~regs.hcrst
    /\ regs' = [regs EXCEPT !.hch = FALSE]
    /\ UNCHANGED <<ipc, iport, ports, devices, requests, broadcasts>>
    /\ BootFrame

\* the controller becomes ready
HwReady ==
    /\ regs.cnr /\ ~regs.hcrst
    /\ regs' = [regs EXCEPT !.cnr = FALSE]
    /\ UNCHANGED <<ipc, iport, ports, devices, requests, broadcasts>>
    /\ BootFrame

\* HCRST: the registers go back to their defaults; CNR may stay set a while
HwReset ==
    /\ regs.hcrst
    /\ \E cnr \in BOOLEAN : regs' = [ResetRegs(regs.scratch) EXCEPT !.cnr = cnr]
    /\ UNCHANGED <<ipc, iport, ports, devices, requests, broadcasts>>
    /\ BootFrame

\* a port finishes its reset: enabled when a device is attached
HwPortReset ==
    /\ \E p \in Ports :
         /\ ports[p].pr
         /\ ports' = [ports EXCEPT ![p].pr = FALSE, ![p].prc = TRUE,
                                   ![p].ped = ports[p].ccs]
    /\ UNCHANGED <<regs, ipc, iport, devices, requests, broadcasts>>
    /\ BootFrame

NextBoot ==
    \/ chip_hardware_reset
    \/ set_max_device_slots
    \/ set_dcbaap
    \/ set_cmd_ring
    \/ init_ir
    \/ setup_scratchpads
    \/ start
    \/ reset_ports
    \/ initial_probe
    \/ HwHalt
    \/ HwRun
    \/ HwReady
    \/ HwReset
    \/ HwPortReset

SpecBoot == InitBoot /\ [][NextBoot]_vars

(***************************************************************************)
(* From power-on to the assigned device: init, then lib.rs's stage 3 for   *)
(* the first device the probe found, on controllers with and without       *)
(* scratchpad buffers.                                                     *)
(***************************************************************************)
\* init has returned and the probe found a device
ProbeFound == ipc = "done" /\ requests # << >>

\* the slots of DeviceContextList.device_ctx_inners: new_slot inserts the slot
\* together with its control ring
device_ctx_inners == {s \in 1..MaxSlots : RingNo(s, CONTROL_DCI) \in DOMAIN rings}

NextStart ==
    \/ NextBoot
    \/ ProbeFound /\ StartAssign
    \/ ProbeFound /\ AssignAcquire1("assign")
    \/ ProbeFound /\ AssignPushInit("assign")
    \/ ProbeFound /\ AssignAcquire2("assign")
    \/ ProbeFound /\ AssignWriteState("assign")
    \/ ProbeFound /\ AssignPushDevice("assign")
    \/ ProbeFound /\ AssignPeekDevice("assign")
    \/ ProbeFound /\ AssignLoop("assign")
    \/ ProbeFound /\ AssignParseConfig("assign")
    \/ ProbeFound /\ run_once
    \/ ProbeFound /\ AssignEnableSlotDone
    \/ ProbeFound /\ AssignAddressDone
    \/ ProbeFound /\ AssignDescriptorDone
    \/ ProbeFound /\ AssignEvaluateDone
    \/ ProbeFound /\ HwCommand
    \/ ProbeFound /\ HwTransfer
    \/ ProbeFound /\ on_event_arrived

SpecStart == InitBoot /\ [][NextStart]_vars

(***************************************************************************)
(* Transfers pushed without a response.  request_no_response returns as    *)
(* soon as the request is in the queue, so a driver can push the next one  *)
(* before the controller has executed the last; nothing but the queue's    *)
(* capacity holds it back.                                                 *)
(***************************************************************************)
\* the transfers a driver asks for with request_no_response: a control
\* transfer without a data stage, with an IN or an OUT data stage, or an
\* interrupt transfer; the actions are the defaults
NoResponseTransfers ==
    {Request("Control", "NOOP", "NOOP", DispCh, "none", TRUE, "none", 0),
     Request("Control", "NOOP", "NOOP", DispCh, "In", FALSE, "buffer", 0),
     Request("Control", "NOOP", "NOOP", DispCh, "Out", TRUE, "buffer", 0),
     Request("Interrupt", "NOOP", "NOOP", DispCh, "none", FALSE, "hid_response", IntDci)}

\* USBDevice::request_no_response with a transfer, on the assigned device; the
\* driver counts the requests it has pushed (cloc.n) and stops at max
request_no_response_transfer(c, transfers, max) ==
    /\ panicked = ""
    /\ cpc[c] = "idle"
    /\ devState = "Assigned"
    /\ cloc[c].n < max
    /\ \E req \in transfers : post_usb_request(req)
    /\ cloc' = [cloc EXCEPT ![c].n = @ + 1]
    /\ UNCHANGED <<devState, stReaders, slotId, descriptor, sem, cpc, chan,
                   dispVars, ctlVars, hwVars, logVars, panicked>>
    /\ UNCHANGED <<stepVars, bootVars, ctxVars, ringVars, muxVars>>

NextFlood ==
    \/ request_no_response_transfer("d1", NoResponseTransfers, MaxPushes)
    \/ run_once
    \/ HwTransfer
    \/ on_event_arrived

SpecFlood == InitAssigned /\ [][NextFlood]_vars

\* the same driver with control requests only, a lap of the DCI-1 ring long
NextWrap ==
    \/ request_no_response_transfer("d1", {r \in NoResponseTransfers :
                                              r.op = "Control" /\ r.data # "Out"},
                                    MaxLap)
    \/ run_once
    \/ HwTransfer
    \/ on_event_arrived

SpecWrap == InitAssigned /\ [][NextWrap]_vars

(***************************************************************************)
(* EnableFunction for an endpoint that is in use already: the driver       *)
(* pushes interrupt transfers and EnableFunction requests with             *)
(* request_no_response, in any order, a lap of the endpoint's ring long.   *)
(***************************************************************************)
\* RequestedOperation::EnableFunction as request_no_response wraps it
EnableFunctionNoResponse ==
    Request("EnableFunction", "NOOP", "NOOP", DispCh, "none", FALSE, "none", IntDci)

NextSetup ==
    \/ request_no_response_transfer("d1", {r \in NoResponseTransfers :
                                              r.op = "Interrupt"}
                                          \cup {EnableFunctionNoResponse},
                                    RingLen)
    \/ run_once
    \/ EnableFunctionDone
    \/ HwCommand
    \/ HwTransfer
    \/ on_event_arrived

SpecSetup == InitAssigned /\ [][NextSetup]_vars

(***************************************************************************)
(* request_once with an operation for which the controller writes no       *)
(* TransferEvent: RequestedOperation::NOOP next to the transfers.          *)
(***************************************************************************)
\* request_once, line 145, on the assigned device, for one of the operations ops
StartOnceOp(c, ops) ==
    /\ panicked = ""
    /\ cpc[c] = "idle"
    /\ devState = "Assigned"
    /\ FreeChans # {}
    /\ \E op \in ops :
          cloc' = [cloc EXCEPT ![c] = [NoLoc EXCEPT !.via = "once", !.op = op]]
    /\ stReaders' = check_self_status(c)
    /\ cpc' = [cpc EXCEPT ![c] = "push"]
    /\ UNCHANGED <<devState, slotId, descriptor, sem, queue, chan, dispVars, ctlVars,
                   hwVars, logVars, panicked>>
    /\ UNCHANGED <<stepVars, bootVars, ctxVars, ringVars, muxVars>>

\* line 154: receiver.await is Err(Canceled) once the sender was dropped
\* unsent, and unwrap() panics in the caller's task
OnceCanceled(c) ==
    /\ panicked = ""
    /\ cpc[c] = "await"
    /\ chan[cloc[c].ch].st = "canceled"
    /\ panicked' = "called unwrap on Err(Canceled)"
    /\ UNCHANGED <<devVars, callVars, dispVars, ctlVars, hwVars, logVars>>
    /\ UNCHANGED <<stepVars, bootVars, ctxVars, ringVars, muxVars>>

NextNoop ==
    \/ \E c \in Drivers : StartOnceOp(c, DriverOps \cup {"NOOP"})
    \/ \E c \in Drivers : OncePush(c)
    \/ \E c \in Drivers : OnceReturn(c)
    \/ \E c \in Drivers : OnceCanceled(c)
    \/ run_once
    \/ HwTransfer
    \/ on_event_arrived

SpecNoop == InitAssigned /\ [][NextNoop]_vars

\* the executor runs every task that can run, the controller completes every
\* TRB it was handed, and a caller that has started a call goes on with it
SpecNoopFair ==
    /\ SpecNoop
    /\ \A c \in Drivers : WF_vars(OncePush(c))
    /\ \A c \in Drivers : WF_vars(OnceReturn(c))
    /\ \A c \in Drivers : WF_vars(OnceCanceled(c))
    /\ WF_vars(run_once)
    /\ WF_vars(HwTransfer)
    /\ WF_vars(on_event_arrived)

(***************************************************************************)
(* The enumeration with a driver that does not wait for it: a second task  *)
(* calls request_no_response at any time.  While the state is Probed the   *)
(* call would go into request_assign itself (StartOnce in Spec follows     *)
(* that path); from the write of Assigned on it pushes its transfers while *)
(* request_assign is fetching the device descriptor.                       *)
(***************************************************************************)
NextEarly ==
    \/ StartAssign
    \/ AssignAcquire1("assign")
    \/ AssignPushInit("assign")
    \/ AssignAcquire2("assign")
    \/ AssignWriteState("assign")
    \/ AssignPushDevice("assign")
    \/ request_no_response_transfer("d2", {r \in NoResponseTransfers : r.data = "none"},
                                    MaxPushes)
    \/ run_once
    \/ AssignEnableSlotDone
    \/ AssignAddressDone
    \/ AssignDescriptorDone
    \/ AssignEvaluateDone
    \/ HwCommand
    \/ HwTransfer
    \/ on_event_arrived

SpecEarly == Init /\ [][NextEarly]_vars

(***************************************************************************)
(* The dispatcher one memory operation at a time.  Between two suspending  *)
(* awaits no other task runs, but the controller does: it can act on a     *)
(* doorbell before the dispatcher has made its next store.  ppc holds the  *)
(* operations the dispatcher still has to make before it suspends, in      *)
(* program order; the other tasks run only while ppc is empty.             *)
(***************************************************************************)
\* post_command, lines 473-486: enque_command, finish_jobs.insert, ring_db,
\* fence(Release), receiver.await
PostCommandOps == <<"enqueue", "insert", "doorbell", "fence", "await">>

\* control_transfer / interrupt_transfer: dev_ctx.write(), enque_transfer, the
\* guard dropped, fence(Release), ring_db; then the insert of
\* post_control_transfer, post_interrupt_transfer or post_transfer
TransferOps == <<"lock", "enqueue", "unlock", "fence", "doorbell", "insert">>

\* a block that writes the slot's Input Context under dev_ctx.write(), and the
\* fence after it (lines 855-910, 975-992)
InputContextOps_GuardKept == <<"lock", "mutate", "fence">>

InputContextOps == <<"lock", "mutate", "unlock", "fence">>

\* assign_address_device from new_slot (line 843) to the AddressDevice command
AddressDeviceOps == <<"lock", "new_slot", "unlock">> \o InputContextOps \o PostCommandOps

\* assign_address_device from the descriptor to the EvaluateContext command
EvaluateContextOps == InputContextOps \o PostCommandOps

\* enable_function: the control context block, setup_endpoint (which takes
\* the write guard itself), the fence, the ConfigureEndpoint command
EnableFunctionOps_PostedFirst ==
    <<"lock", "mutate", "unlock", "fence", "enqueue", "insert", "doorbell", "fence",
      "lock", "setup_endpoint", "unlock", "await">>

EnableFunctionOps ==
    <<"lock", "mutate", "unlock", "lock", "setup_endpoint", "unlock", "fence">>
        \o PostCommandOps

CommandKinds == {"EnableSlot", "AddressDevice", "EvaluateContext", "ConfigureEndpoint"}

SlotCommandKinds == CommandKinds \ {"EnableSlot"}

\* the dispatcher starts on a post
StartPost(ops, what, slot, req, mps, then) ==
    ppc' = [ops |-> ops, what |-> what, slot |-> slot, req |-> req, mps |-> mps,
            key |-> 0, fenced |-> FALSE, then |-> then]

\* the tasks other than the dispatcher run while it is suspended or idle
Suspended == ppc = NoPost

\* run_once, up to the first store of post_transfer
run_once_ops ==
    /\ panicked = ""
    /\ dpc = "idle"
    /\ Suspended
    /\ \E k \in Receivers \ polled :
         /\ QueueOf(k) # << >>
         /\ queue' = IF k = 1 THEN Tail(queue) ELSE queue
         /\ queue2' = IF k = 2 THEN Tail(queue2) ELSE queue2
         /\ polled' = polled \cup {k}
         /\ LET req == Head(QueueOf(k))
            IN  IF req.op = "InitializeDevice"
                THEN /\ StartPost(PostCommandOps, "EnableSlot", 0, req, 0, "enable_slot")
                     /\ dpc' = "posting"
                     /\ dcur' = req
                     /\ UNCHANGED panicked
                ELSE IF req.op \in {"EnableFunction", "Control", "Interrupt"} /\ slotId = 0
                THEN /\ panicked' = "slot_id read before it is set"
                     /\ UNCHANGED <<ppc, dpc, dcur>>
                ELSE IF req.op = "EnableFunction"
                THEN /\ StartPost(EnableFunctionOps, "ConfigureEndpoint", slotId, req,
                                  ep0Mps[slotId], "configure_endpoint")
                     /\ dpc' = "posting"
                     /\ dcur' = req
                     /\ UNCHANGED panicked
                ELSE IF req.op \in {"Control", "Interrupt"}
                THEN /\ StartPost(TransferOps, req.op, slotId, req, 0, "idle")
                     /\ dpc' = "posting"
                     /\ UNCHANGED <<dcur, panicked>>
                ELSE /\ panicked' = IF req.op = "NOOP" THEN panicked
                                    ELSE "not yet implemented"
                     /\ UNCHANGED <<ppc, dpc, dcur>>
    /\ UNCHANGED <<devState, stReaders, slotId, descriptor, sem, callVars, dslot,
                   cmdRes, ctlVars, hwVars, logVars, dev_ctx, bootVars, ctxVars, ringVars>>

\* the TRBs of the post under way go to this ring
PostRing ==
    IF ppc.what \in CommandKinds THEN CmdRing
    ELSE IF ppc.what = "Control" THEN RingNo(ppc.slot, CONTROL_DCI)
    ELSE RingNo(ppc.slot, ppc.req.dci)

\* the controller's tables and rings after the enqueue of the post under way
Enqueued ==
    IF ppc.what \in CommandKinds THEN [st |-> post_command(Ctl, ppc.what, ppc.slot),
                                       key |-> TrbAddr(CmdRing, rings[CmdRing].idx)]
    ELSE IF ppc.what = "Control" THEN control_transfer(Ctl, ppc.slot, ppc.req)
    ELSE interrupt_transfer(Ctl, ppc.slot, ppc.req)

\* the tables after the insert of the post under way
Inserted ==
    IF ppc.what \in CommandKinds
    THEN [Ctl EXCEPT !.finish_jobs = MapPut(@, ppc.key, Action("CommandCallback", DispCh))]
    ELSE IF ppc.req.extra = "KeepFill"
    THEN [Ctl EXCEPT !.extra_works =
             MapPut(@, ppc.key, [slot |-> ppc.slot, req |-> [ppc.req EXCEPT !.cmp = "NOOP"]])]
    ELSE [Ctl EXCEPT !.finish_jobs = MapPut(@, ppc.key, ActionOf(ppc.req))]

\* the dispatcher makes the next operation of the post under way; after the
\* last one it is suspended (then) or has finished with the request
PostStep ==
    /\ panicked = ""
    /\ ppc.ops # << >>
    /\ LET op == Head(ppc.ops)
           last == Len(ppc.ops) = 1
       IN  /\ op = "lock" => dev_ctx = "free"
           /\ dev_ctx' = IF op = "lock" THEN "dispatcher"
                         ELSE IF op = "unlock" THEN "free" ELSE dev_ctx
           /\ rings' = IF op = "new_slot"
                       THEN MapPut(rings, RingNo(ppc.slot, CONTROL_DCI), NewRing(TRUE))
                       ELSE IF op = "setup_endpoint"
                       THEN setup_endpoint(rings, ppc.slot, IntDci)
                       ELSE IF op = "enqueue" THEN Enqueued.st.rings
                       ELSE rings
           /\ ep0Mps' = IF op = "mutate" THEN [ep0Mps EXCEPT ![ppc.slot] = ppc.mps]
                        ELSE ep0Mps
           /\ dcbaa' = IF op = "new_slot" THEN new_slot(dcbaa, ppc.slot) ELSE dcbaa
           /\ ep_ctx' = IF op = "mutate" /\ ppc.what = "AddressDevice"
                        THEN MapPut(ep_ctx, RingNo(ppc.slot, CONTROL_DCI),
                                    Endpoint0Context(rings, ppc.slot))
                        ELSE IF op = "setup_endpoint"
                        THEN MapPut(ep_ctx, RingNo(ppc.slot, IntDci),
                                    SetupEndpointContext(
                                        setup_endpoint(rings, ppc.slot, IntDci),
                                        ppc.slot, IntDci))
                        ELSE ep_ctx
           /\ hwCmd' = IF op = "doorbell" /\ ppc.what \in CommandKinds
                       THEN Append(hwCmd, [addr |-> ppc.key, kind |-> ppc.what,
                                           slot |-> ppc.slot])
                       ELSE hwCmd
           /\ hwXfer' = IF op = "doorbell" /\ ppc.what \notin CommandKinds
                        THEN [hwXfer EXCEPT ![PostRing] = Append(@, ppc.key)]
                        ELSE hwXfer
           /\ finish_jobs' = IF op = "insert" THEN Inserted.finish_jobs ELSE finish_jobs
           /\ extra_works' = IF op = "insert" THEN Inserted.extra_works ELSE extra_works
           /\ chan' = IF op = "insert" /\ ppc.req.cmp = "SimpleResponse"
                      THEN [chan EXCEPT ![ppc.req.ch].addr = ppc.key]
                      ELSE chan
           /\ ppc' = IF last THEN NoPost
                     ELSE [ppc EXCEPT !.ops = Tail(@),
                                      !.key = IF op = "enqueue" THEN Enqueued.key ELSE @,
                                      !.fenced = IF op = "fence" THEN TRUE
                                                 ELSE IF op = "enqueue" THEN FALSE ELSE @]
           /\ dpc' = IF last THEN ppc.then ELSE dpc
           /\ polled' = IF last /\ ppc.then = "idle" THEN Repoll(polled) ELSE polled
           /\ panicked' = IF op = "psi" THEN "not implemented: PSI" ELSE panicked
    /\ UNCHANGED <<devVars, cpc, cloc, dcur, dslot, cmdRes, hwSlots, evq, logVars,
                   bootVars, ringVars, queue2>>

\* assign_address_device, from enable_slot's completion to its next store
AssignEnableSlotDone_ops ==
    /\ panicked = ""
    /\ dpc = "enable_slot"
    /\ cmdRes # NoCmdRes
    /\ cmdRes' = NoCmdRes
    /\ IF ~AssertSuccess(cmdRes.code)
       THEN /\ panicked' = "enable slot failed!"
            /\ UNCHANGED <<slotId, dslot, ppc, dpc>>
       ELSE \E port_speed \in PortSpeeds :
              LET mps == parse_default_max_packet_size_from_speed(port_speed)
              IN  /\ slotId' = OnceCellSet(slotId, cmdRes.slot)
                  /\ dslot' = cmdRes.slot
                  /\ StartPost(IF mps = 0 THEN <<"lock", "new_slot", "unlock", "psi">>
                               ELSE AddressDeviceOps,
                               "AddressDevice", cmdRes.slot, NoRequest, mps,
                               "address_device")
                  /\ dpc' = "posting"
                  /\ UNCHANGED panicked
    /\ UNCHANGED <<devState, stReaders, descriptor, sem, queue, callVars, dcur,
                   ctlVars, hwVars, logVars, dev_ctx, bootVars, ctxVars, ringVars, muxVars>>

\* from AddressDevice's completion to the first store of the control transfer
AssignAddressDone_ops ==
    /\ panicked = ""
    /\ dpc = "address_device"
    /\ cmdRes # NoCmdRes
    /\ cmdRes' = NoCmdRes
    /\ IF ~AssertSuccess(cmdRes.code)
       THEN /\ panicked' = "address device failed!"
            /\ UNCHANGED <<chan, ppc, dpc>>
       ELSE /\ StartPost(TransferOps \o <<"await">>, "Control", slotId,
                         BasicDescRequest, 0, "basic_desc")
            /\ chan' = [chan EXCEPT ![DispCh] =
                          [NoChan EXCEPT !.st = "open", !.rx = TRUE]]
            /\ dpc' = "posting"
            /\ UNCHANGED panicked
    /\ UNCHANGED <<devVars, cpc, cloc, dcur, dslot, ctlVars, hwVars, logVars,
                   dev_ctx, bootVars, ctxVars, ringVars, muxVars>>

\* from the descriptor's one-shot to the first store of the Input Context
AssignDescriptorDone_ops ==
    /\ panicked = ""
    /\ dpc = "basic_desc"
    /\ chan[DispCh].st = "sent"
    /\ chan' = [chan EXCEPT ![DispCh] = NoChan]
    /\ IF ~BasicDescOk(chan[DispCh].val)
       THEN /\ panicked' = "get basic desc failed!"
            /\ UNCHANGED <<ppc, dpc, evalLog>>
       ELSE \E byte7 \in Byte7Vals :
              /\ StartPost(EvaluateContextOps, "EvaluateContext", dslot, NoRequest,
                           ActualSpeed(byte7), "evaluate_context")
              /\ evalLog' = [byte7 |-> byte7, mps |-> ActualSpeed(byte7), slot |-> dslot]
              /\ dpc' = "posting"
              /\ UNCHANGED panicked
    /\ UNCHANGED <<devVars, cpc, cloc, dcur, dslot, cmdRes, ctlVars, hwVars,
                   kfEv, kfSucc, dev_ctx, bootVars, ctxVars, ringVars, muxVars>>

NextPost ==
    \/ Suspended /\ StartAssign
    \/ Suspended /\ AssignAcquire1("assign")
    \/ Suspended /\ AssignPushInit("assign")
    \/ Suspended /\ AssignAcquire2("assign")
    \/ Suspended /\ AssignWriteState("assign")
    \/ Suspended /\ AssignPushDevice("assign")
    \/ Suspended /\ AssignPeekDevice("assign")
    \/ Suspended /\ AssignLoop("assign")
    \/ Suspended /\ AssignParseConfig("assign")
    \/ Suspended /\ PushKeepFill("d1")
    \/ Suspended /\ StartEnableFunction("d1")
    \/ Suspended /\ PushEnableFunction("d1")
    \/ Suspended /\ on_event_arrived
    \/ run_once_ops
    \/ PostStep
    \/ AssignEnableSlotDone_ops
    \/ AssignAddressDone_ops
    \/ AssignDescriptorDone_ops
    \/ AssignEvaluateDone
    \/ EnableFunctionDone
    \/ HwCommand
    \/ HwTransfer

SpecPost == Init /\ [][NextPost]_vars

(***************************************************************************)
(* Properties.                                                             *)
(***************************************************************************)
\* the TRB stored at a physical address
TrbAt(addr) == rings[addr \div 1024].trbs[(addr % 1024) \div 16]

\* the type of the terminal TRB of a TD on the ring an address lies on
TerminalType(addr) ==
    IF (addr \div 1024) % 32 = CONTROL_DCI THEN "Status" ELSE "Normal"

\* the step is one iteration of the event loop
EventStep == evq # << >> /\ evq' = Tail(evq)

\* the event loop is about to handle a TransferEvent whose address has an
\* entry of the given kind in finish_jobs
EventFor(kind) ==
    /\ evq # << >>
    /\ Head(evq).type = "TransferEvent"
    /\ Head(evq).addr \in DOMAIN finish_jobs
    /\ finish_jobs[Head(evq).addr].k = kind

\* the one-shot senders in finish_jobs that belong to channel h
SendersOf(h) ==
    {a \in DOMAIN finish_jobs :
        finish_jobs[a].k = "SimpleResponse" /\ finish_jobs[a].ch = h}

\* C1: a request_once one-shot is resolved by the TransferEvent whose address
\* is that of the request's terminal TRB (Status for control, the Normal TRB
\* for interrupt) and carries that event's completion code; it is sent once,
\* its sender is then gone, and while it is pending its sender is stored under
\* the terminal TRB's address only.
C1_OneShotResolvedByItsTerminalEvent ==
    /\ \A h \in Chans : chan[h].st = "sent" =>
          /\ chan[h].by = chan[h].addr
          /\ TrbAt(chan[h].addr).type = TerminalType(chan[h].addr)
          /\ chan[h].val.v = chan[h].raw
          /\ chan[h].sends = 1
          /\ SendersOf(h) = {}
    /\ \A h \in Chans : \A a \in SendersOf(h) :
          /\ chan[h].st = "open"
          /\ chan[h].addr = a
          /\ TrbAt(a).type = TerminalType(a)

\* a one-shot has been resolved while the one-shot of another request was
\* pending under another address
C1_ResolvedWhileAnotherPending ==
    \E h, g \in Chans :
        /\ h # g
        /\ chan[h].st = "sent"
        /\ chan[g].st = "open"
        /\ SendersOf(g) # {}
        /\ chan[g].addr # chan[h].addr

\* C2 as stated: a one-shot resolves to Ok only for Success or ShortPacket,
\* and to Err with the numeric code for every other completion code.
C2_OkOnlyForSuccessOrShortPacket ==
    \A h \in Chans : chan[h].st = "sent" =>
        /\ chan[h].val.ok <=> chan[h].raw \in {Success, ShortPacket}
        /\ chan[h].val.v = chan[h].raw

\* C2 (amended): a one-shot resolves to Ok(code) for every completion code
\* that is a value of the CompletionCode enum, the error codes included, and
\* to Err(raw) only for a byte that is no value of the enum.
C2_OkForEveryCompletionCode ==
    \A h \in Chans : chan[h].st = "sent" =>
        chan[h].val = [ok |-> chan[h].raw \in KnownCodes, v |-> chan[h].raw]

\* a one-shot resolved to Ok(StallError), and another one to Err
C2_StallResolvesToOk ==
    /\ \E h \in Chans :
          chan[h].st = "sent" /\ chan[h].raw = StallError /\ chan[h].val.ok
    /\ \E h \in Chans :
          chan[h].st = "sent" /\ chan[h].raw = UnknownCode /\ ~chan[h].val.ok

\* C3 as stated: a request_once on a Probed device runs request_assign and
\* does not block on the device's own state lock: it never waits for the
\* write lock of the state while its own read guard on the state is alive.
C3_NotBlockedOnOwnStateLock ==
    \A c \in Drivers : ~(cpc[c] = "write_state" /\ c \in stReaders)

\* C4 as stated: once request_assign has returned, slot_id is set, the EP0
\* max packet size evaluated is byte 7 of the 8-byte descriptor (8 for 0), and
\* the descriptor cell has one configuration for each index below
\* num_configurations.
C4_OneConfigurationPerIndex ==
    cpc["assign"] = "done" =>
        /\ slotId # 0
        /\ evalLog.slot = slotId
        /\ evalLog.mps = IF evalLog.byte7 = 0 THEN 8 ELSE evalLog.byte7
        /\ ep0Mps[slotId] = evalLog.mps
        /\ descriptor.set
        /\ descriptor.cfgs = 0..(descriptor.ncfg - 1)

\* C4 (amended): once request_assign has returned, slot_id is set, the EP0 max
\* packet size evaluated is byte 7 of the 8-byte descriptor (8 for 0), and the
\* descriptor cell is set with the configurations that parsed: a subset of the
\* indexes below num_configurations.
C4_AssignedDevice ==
    cpc["assign"] = "done" =>
        /\ slotId # 0
        /\ evalLog.slot = slotId
        /\ evalLog.mps = IF evalLog.byte7 = 0 THEN 8 ELSE evalLog.byte7
        /\ ep0Mps[slotId] = evalLog.mps
        /\ descriptor.set
        /\ descriptor.cfgs \subseteq 0..(descriptor.ncfg - 1)

\* request_assign returned for a device whose byte 7 read 0 and whose one
\* configuration did not parse
C4_ReturnedWithUnparsedConfiguration ==
    /\ cpc["assign"] = "done"
    /\ evalLog.byte7 = 0
    /\ descriptor.ncfg = 1
    /\ descriptor.cfgs = {}

\* C5: when the event loop handles the TransferEvent of a request that
\* carries a DropSem guard, the permit is returned in that step if the code is
\* Success or ShortPacket, and for any other code the loop panics and the
\* permit is not returned; the dispatcher returns the permit of an
\* InitializeDevice or EnableFunction request when it finishes the operation;
\* after a panic the permit count never changes again.
C5_GuardReleasedOnSuccessOnly ==
    [][ /\ (EventStep /\ EventFor("DropSem")) =>
              IF Head(evq).raw \in {Success, ShortPacket}
              THEN sem' = sem + 1 /\ panicked' = ""
              ELSE sem' = sem /\ panicked' # ""
        /\ (dpc \in {"evaluate_context", "configure_endpoint"} /\ dpc' = "idle"
               /\ dcur.cmp = "DropSem") => sem' = sem + 1
        /\ panicked # "" => sem' = sem
      ]_vars

\* the enumeration went through (the guards of InitializeDevice and of two
\* Control requests came back), the function was enabled, and every permit is
\* back
C5_EveryGuardReturned ==
    /\ cpc["assign"] = "done"
    /\ descriptor.ncfg = 1
    /\ FunctionEnabled
    /\ ~FunctionEnabling
    /\ sem = 1
    /\ panicked = ""

\* a Control request that carries a DropSem guard is outstanding: it is in the
\* device queue, or its action is stored in finish_jobs
DropSemOutstanding ==
    \/ \E i \in 1..Len(queue) : queue[i].op = "Control" /\ queue[i].cmp = "DropSem"
    \/ \E a \in DOMAIN finish_jobs : finish_jobs[a].k = "DropSem"

\* C6: from the push of a Control request with a DropSem guard until the
\* event loop has handled the TransferEvent of its Status TRB the permit is
\* not available, so the caller's next acquire cannot return before that.
C6_PermitHeldUntilTheEvent ==
    DropSemOutstanding => sem = 0

\* the hardware has written the TransferEvent of a DropSem request, the event
\* loop has not handled it yet, and the caller waits for the permit
C6_CallerWaitsForTheEvent ==
    /\ EventFor("DropSem")
    /\ cpc["assign"] = "acquire3"
    /\ sem = 0

\* addresses of the TRBs posted with a completion action for which the
\* hardware has not written the completion event
PostedNotCompleted ==
    {hwCmd[i].addr : i \in 1..Len(hwCmd)} \cup
    UNION {{hwXfer[r][i] : i \in 1..Len(hwXfer[r])} : r \in RingIds}

\* addresses of the events the event loop has not consumed
EventsWaiting == {evq[i].addr : i \in 1..Len(evq)}

\* C7: the keys of finish_jobs are the addresses of the posted TRBs whose
\* event is not written yet together with those whose event waits in the event
\* ring; with the event ring drained they are the posted-but-not-completed
\* addresses exactly.
C7_PendingTableClosure ==
    /\ DOMAIN finish_jobs = PostedNotCompleted \cup EventsWaiting
    /\ evq = << >> => DOMAIN finish_jobs = PostedNotCompleted

\* the event ring is drained, one request completed and was taken out of the
\* table, and another posted TRB is pending in it
C7_DrainedWithPendingEntry ==
    /\ evq = << >>
    /\ DOMAIN finish_jobs # {}
    /\ \E h \in Chans : chan[h].st = "returned"

\* the Normal TRB interrupt_transfer builds for the keep-fill request
KeepTrb == [type |-> "Normal", buf |-> "keep_buffer", cyc |-> FALSE, flags |-> {"IOC", "ISP"}]

\* C8: when the event loop handles a TransferEvent whose address is the key
\* of a keep-fill entry, whatever its completion code, exactly one Normal TRB
\* is enqueued on the same ring and handed to the hardware, the entry moves to
\* the new TRB's address, and no one-shot receives anything.
C8_RefillExactlyOnce ==
    [][ (EventStep /\ Head(evq).type = "TransferEvent"
            /\ Head(evq).addr \in DOMAIN extra_works) =>
          LET addr == Head(evq).addr
              r == addr \div 1024
              next == TrbAddr(r, rings[r].idx)
          IN  /\ rings' = [rings EXCEPT ![r] = RingEnqueue(rings[r], KeepTrb)]
              /\ hwXfer' = [hwXfer EXCEPT ![r] = Append(@, next)]
              /\ DOMAIN extra_works' = (DOMAIN extra_works \ {addr}) \cup {next}
              /\ chan' = chan
              /\ finish_jobs' = finish_jobs
              /\ panicked' = ""
      ]_vars

\* two refills ran for events that did not report Success while a one-shot
\* request was waiting for its own event
C8_RefilledOnErrorWhileOneShotWaits ==
    /\ kfEv = 2
    /\ kfSucc = 0
    /\ \E h \in Chans : chan[h].st = "open" /\ SendersOf(h) # {}

\* nothing but the keep-fill request has been posted
OnlyKeepFillPosted ==
    /\ DOMAIN extra_works # {}
    /\ \A h \in Chans : chan[h].st \in {"unused", "open"} /\ chan[h].addr = 0

\* the ring of the interrupt endpoint
IntRing == rings[RingNo(slotId, IntDci)]

\* Normal TRBs with IOC | ISP on the interrupt endpoint's ring
NormalTrbs ==
    {i \in DOMAIN IntRing.trbs :
        IntRing.trbs[i].type = "Normal" /\ IntRing.trbs[i].flags = {"IOC", "ISP"}}

\* the index of the TRB enqueued last on the interrupt endpoint's ring
LastPostedIdx == IF IntRing.idx = 0 THEN LinkIdx - 1 ELSE IntRing.idx - 1

\* while only the keep-fill request is posted: finish_jobs is empty and
\* extra_works has one entry, under the address of the TRB posted last
KeepFillTables ==
    OnlyKeepFillPosted =>
        /\ finish_jobs = EmptyMap
        /\ DOMAIN extra_works = {TrbAddr(RingNo(slotId, IntDci), LastPostedIdx)}

\* C9 as stated: while only the keep-fill request is posted the pending table
\* is empty and the refill table has one entry under the last TRB's address,
\* and after the initial post and three Success events the ring holds exactly
\* three Normal TRBs with IOC | ISP.
C9_ThreeTrbsAfterThreeEvents ==
    /\ KeepFillTables
    /\ (OnlyKeepFillPosted /\ kfEv = 3 /\ kfSucc = 3) => Cardinality(NormalTrbs) = 3

\* C9 (amended): while only the keep-fill request is posted the pending table
\* is empty and the refill table has one entry under the last TRB's address,
\* and after the initial post and n events the ring holds n + 1 Normal TRBs
\* with IOC | ISP: four after three Success events.
C9_OneTrbPerEventAndTheFirst ==
    /\ KeepFillTables
    /\ OnlyKeepFillPosted => Cardinality(NormalTrbs) = kfEv + 1
    /\ (OnlyKeepFillPosted /\ kfEv = 3 /\ kfSucc = 3) => Cardinality(NormalTrbs) = 4

\* the initial post and three Success events have happened, nothing else
C9_AfterThreeSuccessEvents ==
    /\ OnlyKeepFillPosted
    /\ kfEv = 3
    /\ kfSucc = 3
    /\ evq = << >>

\* C10: when the event loop handles the TransferEvent of a one-shot whose
\* receiver has been dropped, the entry is removed from finish_jobs, the failed
\* send is ignored (nothing else changes for any one-shot) and the loop does
\* not panic, so that it goes on to the next event.
C10_DroppedReceiverIsIgnored ==
    [][ (EventStep /\ EventFor("SimpleResponse")
            /\ ~chan[finish_jobs[Head(evq).addr].ch].rx) =>
          LET h == finish_jobs[Head(evq).addr].ch
          IN  /\ Head(evq).addr \notin DOMAIN finish_jobs'
              /\ chan'[h].st = "failed"
              /\ \A g \in AllChans \ {h} : chan'[g] = chan[g]
              /\ panicked' = ""
      ]_vars

\* a send to a dropped receiver failed and a one-shot created later was
\* resolved
C10_LaterEventHandledAfterFailedSend ==
    \E h, g \in Chans :
        /\ h < g
        /\ chan[h].st = "failed"
        /\ chan[g].st = "sent"
        /\ panicked = ""

(***************************************************************************)
(* Bring-up (SpecBoot).                                                    *)
(***************************************************************************)
\* the steps of chip_hardware_reset
ResetSteps ==
    {"clear_run_stop", "wait_halted", "wait_ready", "set_hcrst", "wait_hcrst",
     "wait_reset_done"}

\* DCBAAP, CRCR, the ERST registers and, where the controller asks for
\* scratchpad buffers, DCBAA[0] hold what init writes to them
StructuresInPlace ==
    /\ regs.dcbaap = "dcbaa"
    /\ regs.crcr.ptr = "cmd_ring"
    /\ regs.erstsz = 1 /\ regs.erstba = "erst" /\ regs.erdp = "event_ring"
    /\ regs.scratch > 0 => regs.dcbaa0 = "scratchpad_array"

\* the Input-independent configuration a register write of init presupposes
ResetCompleted == ~regs.hcrst /\ ~regs.cnr /\ ~regs.rs /\ regs.hch

\* what each write of init finds already done
InitOrderStep ==
    /\ (regs'.hcrst /\ ~regs.hcrst) => (~regs.rs /\ regs.hch /\ ~regs.cnr)
    /\ (regs'.maxSlotsEn # regs.maxSlotsEn /\ ~regs.hcrst) =>
          (ResetCompleted /\ ipc \notin ResetSteps)
    /\ (regs'.dcbaap # regs.dcbaap /\ ~regs.hcrst) =>
          (ResetCompleted /\ regs.maxSlotsEn = MaxSlots)
    /\ (regs'.crcr # regs.crcr /\ ~regs.hcrst) =>
          (ResetCompleted /\ regs.dcbaap = "dcbaa")
    /\ (regs'.iman_ie /\ ~regs.iman_ie) =>
          (ResetCompleted /\ regs.crcr.ptr = "cmd_ring"
             /\ regs'.erstsz = 1 /\ regs'.erstba = "erst" /\ regs'.erdp = "event_ring")
    /\ (regs'.dcbaa0 # regs.dcbaa0 /\ ~regs.hcrst) => (ResetCompleted /\ regs.iman_ie)
    /\ (regs'.rs /\ ~regs.rs) =>
          (ResetCompleted /\ regs.maxSlotsEn = MaxSlots /\ regs.iman_ie
             /\ StructuresInPlace /\ ipc = "set_run_stop")
    /\ (regs'.db0 # regs.db0 /\ ~regs.hcrst) => (regs.rs /\ ~regs.hch)
    /\ \A p \in Ports : (ports'[p].pr /\ ~ports[p].pr) =>
          /\ regs.rs /\ ~regs.hch /\ regs.db0 = 1
          /\ \A q \in Ports : q < p => (ports[q].prc /\ ~ports[q].pr)
    /\ (devices' # devices \/ (ipc' = "done" /\ ipc # "done")) =>
          /\ regs.rs /\ ~regs.hch
          /\ \A p \in Ports : ports[p].prc /\ ~ports[p].pr

\* C14: init runs controller reset (R/S cleared, HCHalted seen, CNR clear,
\* HCRST set, HCRST and CNR clear), then CONFIG.MaxSlotsEn, DCBAAP, CRCR,
\* interrupter 0, scratchpads, then sets Run/Stop and sees HCHalted clear, then
\* resets every port to completion, then probes; Run/Stop is never set before
\* DCBAAP, CRCR, the ERST registers and the scratchpad entry are in place.
C14_InitOrder == [][InitOrderStep]_vars

\* init returned on a controller that asks for a scratchpad buffer and was
\* running when init was entered
C14_InitReturnedWithScratchpads ==
    /\ ipc = "done"
    /\ regs.scratch = 1
    /\ regs.dcbaa0 = "scratchpad_array"

\* C15: when init returns USBCMD.R/S is 1, USBSTS.HCH is 0, CRCR holds the
\* command ring's base with RCS equal to the ring's initial cycle bit,
\* DCBAAP holds the DCBAA base, ERSTSZ is 1, IMAN.IE is 1 and the USBCMD
\* interrupter enable is 0.
C15_RegistersWhenInitReturns ==
    ipc = "done" =>
        /\ regs.rs /\ ~regs.hch
        /\ regs.crcr = [ptr |-> "cmd_ring", rcs |-> TRUE]
        /\ rings[CmdRing].cycle
        /\ regs.dcbaap = "dcbaa"
        /\ regs.erstsz = 1
        /\ regs.iman_ie
        /\ ~regs.inte

\* init returned on a controller without scratchpad buffers
C15_InitReturned == ipc = "done" /\ regs.scratch = 0 /\ regs.db0 = 1

\* the root ports with a device attached
ConnectedPorts == {p \in Ports : ports[p].ccs}

\* C16: after the initial probe the devices vector and the receiver vector
\* hold one entry per port whose CCS was set, in port order; the i-th device
\* and the i-th receiver share slot_id cell and queue; every device is Probed
\* with port number port index + 1; one pre_initialize_device broadcast was
\* made per device; unconnected ports produce nothing.
C16_OneDevicePerConnectedPort ==
    /\ ipc # "done" => (devices = << >> /\ requests = << >> /\ broadcasts = << >>)
    /\ ipc = "done" =>
        /\ Len(devices) = Cardinality(ConnectedPorts)
        /\ Len(requests) = Len(devices)
        /\ broadcasts = devices
        /\ \A i \in 1..Len(devices) :
             /\ devices[i].port - 1 \in ConnectedPorts
             /\ devices[i].state = "Probed"
             /\ requests[i].cell = devices[i].cell
             /\ requests[i].q = devices[i].q
             /\ \A j \in 1..Len(devices) : i < j =>
                  /\ devices[i].port < devices[j].port
                  /\ devices[i].cell # devices[j].cell
                  /\ devices[i].q # devices[j].q

\* the probe ran with one port connected and one not
C16_ProbedWithAnEmptyPort ==
    /\ ipc = "done"
    /\ Len(devices) = 1
    /\ ConnectedPorts # Ports

(***************************************************************************)
(* Commands of the enumeration (Spec).                                     *)
(***************************************************************************)
\* the dispatcher is suspended in post_command
CommandSteps == {"enable_slot", "address_device", "evaluate_context", "configure_endpoint"}

\* the dispatcher takes the CommandCompletion its post_command received
CommandResultTaken == dpc \in CommandSteps /\ cmdRes # NoCmdRes /\ cmdRes' = NoCmdRes

\* the command most recently handed to the controller in this step
NewCommand == hwCmd'[Len(hwCmd')]

CommandPosted == Len(hwCmd') > Len(hwCmd)

TransferPosted == \E r \in RingIds : Len(hwXfer'[r]) > Len(hwXfer[r])

\* the TRB at an address once this step has written the rings
TrbPosted(addr) == rings'[addr \div 1024].trbs[(addr % 1024) \div 16]

\* C13: a command of the enumeration or of EnableFunction that completes
\* with a code other than Success panics at that step: nothing more is posted
\* for the flow, and after a failed EnableSlot the slot_id cell stays as it
\* was and no ring or context is created for the slot id the completion carries.
C13_FailedCommandPanics ==
    [][/\ (CommandResultTaken /\ cmdRes.code # Success) =>
            /\ panicked' # ""
            /\ UNCHANGED <<rings, hwCmd, hwXfer, finish_jobs, extra_works, slotId,
                           ep0Mps, sem, dpc>>
       /\ panicked # "" => UNCHANGED <<rings, hwCmd, hwXfer, finish_jobs, slotId>>]_vars

\* EnableSlot failed on a device that was never given a slot
C13_EnableSlotFailed ==
    /\ panicked = "enable slot failed!"
    /\ slotId = 0
    /\ DOMAIN rings = {CmdRing}

\* the steps of assign_address_device
EnumSteps == {"enable_slot", "address_device", "basic_desc", "evaluate_context"}

\* what each step of assign_address_device is preceded by
EnumerationOrderStep ==
    /\ (CommandPosted /\ NewCommand.kind = "EnableSlot") =>
          (dpc = "idle" /\ dcur'.op = "InitializeDevice")
    /\ (CommandPosted /\ NewCommand.kind = "AddressDevice") =>
          /\ dpc = "enable_slot"
          /\ cmdRes.code = Success /\ TrbAt(cmdRes.addr).type = "EnableSlot"
          /\ NewCommand.slot = cmdRes.slot
          /\ RingNo(cmdRes.slot, CONTROL_DCI) \in DOMAIN rings'
    /\ (TransferPosted /\ dpc \in EnumSteps) =>
          /\ dpc = "address_device"
          /\ cmdRes.code = Success /\ TrbAt(cmdRes.addr).type = "AddressDevice"
          /\ hwXfer'[RingNo(slotId, CONTROL_DCI)] # << >>
          /\ TrbPosted(chan'[DispCh].addr - 16).buf = "buffer8"
    /\ (CommandPosted /\ NewCommand.kind = "EvaluateContext") =>
          /\ dpc = "basic_desc"
          /\ chan[DispCh].st = "sent"
          /\ chan[DispCh].val = [ok |-> TRUE, v |-> Success]
          /\ chan[DispCh].by = chan[DispCh].addr
    /\ (CommandPosted /\ dpc \in EnumSteps) =>
          NewCommand.kind \in {"AddressDevice", "EvaluateContext"}
    /\ (dpc \in EnumSteps /\ dpc' # dpc) =>
          \/ panicked' # ""
          \/ dpc = "enable_slot" /\ dpc' = "address_device"
          \/ dpc = "address_device" /\ dpc' = "basic_desc"
          \/ dpc = "basic_desc" /\ dpc' = "evaluate_context"
          \/ dpc = "evaluate_context" /\ dpc' = "idle"
    /\ (dpc \in EnumSteps /\ sem' # sem) =>
          /\ dpc = "evaluate_context"
          /\ cmdRes.code = Success /\ TrbAt(cmdRes.addr).type = "EvaluateContext"
          /\ sem' = sem + 1

\* C17: for an InitializeDevice request the dispatcher posts EnableSlot,
\* AddressDevice, the 8-byte GetDescriptor(Device) and EvaluateContext in
\* that order, each after the one before completed with Success; the slot's
\* control ring exists once EnableSlot completed and before AddressDevice is
\* posted; the guard the request carried is dropped only after
\* EvaluateContext succeeded.
C17_EnumerationOrder == [][EnumerationOrderStep]_vars

\* an InitializeDevice request went through all four steps and its guard is back
C17_EnumerationFinished ==
    /\ dpc = "idle"
    /\ evalLog # NoEval
    /\ sem = 1
    /\ cpc["assign"] = "acquire2"

\* the AddressDevice command has completed with Success
AddressDeviceSucceeded ==
    \E i \in 0..(RingLen - 1) :
        /\ rings[CmdRing].trbs[i].type = "AddressDevice"
        /\ TrbAddr(CmdRing, i) \notin DOMAIN finish_jobs
        /\ (cmdRes # NoCmdRes /\ cmdRes.addr = TrbAddr(CmdRing, i)) =>
              cmdRes.code = Success
        /\ panicked # "address device failed!"

\* C18 as stated: the slot_id cell is uninitialized in every state before the
\* device's AddressDevice command has completed with Success.
C18_UnsetUntilAddressDevice == slotId # 0 => AddressDeviceSucceeded

\* C18: the slot_id cell is set by the step that takes the successful
\* completion of the device's first EnableSlot, to the slot id that
\* completion carries, and never changes afterwards.
C18_SetOnceAfterEnableSlot ==
    [][slotId' # slotId =>
          /\ slotId = 0
          /\ dpc = "enable_slot"
          /\ cmdRes.code = Success /\ TrbAt(cmdRes.addr).type = "EnableSlot"
          /\ slotId' = cmdRes.slot
          /\ slotId' # 0]_vars

\* a second InitializeDevice was given another slot and the cell kept the first
C18_SecondEnableSlotKeepsTheCell == slotId # 0 /\ dslot # 0 /\ dslot # slotId

(***************************************************************************)
(* Events and the two tables (SpecStray).                                  *)
(***************************************************************************)
\* the event the event loop takes next has no entry under its address
UnknownEvent ==
    /\ evq # << >>
    /\ Head(evq).addr \notin DOMAIN finish_jobs
    /\ Head(evq).addr \notin DOMAIN extra_works

LastCommandAddr ==
    TrbAddr(CmdRing, IF rings[CmdRing].idx = 0 THEN LinkIdx - 1
                     ELSE rings[CmdRing].idx - 1)

\* C12: post_command resolves with the CommandCompletion whose
\* command_trb_pointer is the address the command's TRB was enqueued at,
\* forwarded whole (slot_id kept), never with one of another pointer; a
\* CommandCompletion whose entry is not a CommandCallback is a panic and
\* delivers nothing.
C12_CommandResolvedByItsCompletion ==
    [][/\ (cmdRes' # cmdRes /\ cmdRes' # NoCmdRes) =>
            /\ EventStep
            /\ Head(evq).type = "CommandCompletion"
            /\ Head(evq).addr = LastCommandAddr
            /\ dpc \in CommandSteps
            /\ finish_jobs[Head(evq).addr].k = "CommandCallback"
            /\ Head(evq).addr \notin DOMAIN finish_jobs'
            /\ cmdRes' = [code |-> Head(evq).raw, slot |-> Head(evq).slot,
                          addr |-> Head(evq).addr]
       /\ (/\ EventStep
           /\ Head(evq).type = "CommandCompletion"
           /\ Head(evq).addr \in DOMAIN finish_jobs
           /\ finish_jobs[Head(evq).addr].k # "CommandCallback") =>
            /\ panicked' # ""
            /\ UNCHANGED <<cmdRes, chan, sem>>]_vars

\* AddressDevice was resolved by the completion of its own TRB, which came
\* from a controller that named another slot
C12_ResolvedWithTheEventsSlot ==
    /\ dpc = "address_device"
    /\ cmdRes = [code |-> Success, slot |-> MaxSlots, addr |-> LastCommandAddr]

(***************************************************************************)
(* The dispatcher over two devices (SpecMux, SpecMuxFair).                 *)
(***************************************************************************)
\* run_once pops a request of one of these operations
ReservedPopped ==
    /\ dpc = "idle"
    /\ \/ queue # << >> /\ queue' = Tail(queue) /\ Head(queue).op \in NoResponseOps
       \/ queue2 # << >> /\ queue2' = Tail(queue2) /\ Head(queue2).op \in NoResponseOps

\* C19: handing a Bulk, Isoch or NOOP request to post_transfer is a no-op:
\* no TRB is enqueued, no doorbell rung, both tables stay as they are, and
\* the dispatcher goes on to later requests.
C19_ReservedOperationsAreNoOps ==
    [][ReservedPopped =>
          /\ UNCHANGED <<rings, hwCmd, hwXfer, finish_jobs, extra_works, chan, sem>>
          /\ panicked' = ""]_vars

\* C20: a request pushed to one device's queue is in the end handed to
\* post_transfer whatever the other devices do: a full queue of the first
\* device does not stay full, unless the executor panicked.
C20_PendingRequestIsDispatched ==
    (Len(queue) = QueueCap /\ panicked = "") ~>
        (Len(queue) < QueueCap \/ panicked # "")

(***************************************************************************)
(* Properties of the dispatcher's stores (SpecPost).                       *)
(***************************************************************************)
\* the dispatcher's next operation is the doorbell write of the post under way
DoorbellNext == ppc.ops # << >> /\ Head(ppc.ops) = "doorbell"

\* C21: for every TRB enqueue the order is TRB written, release fence,
\* doorbell, wait: the doorbell is never written before the release fence that
\* follows the enqueue.
C21_FenceBeforeDoorbell ==
    [][DoorbellNext /\ ppc' # ppc =>
          /\ ppc.fenced
          /\ ppc.key # 0
          /\ "enqueue" \notin {ppc.ops[i] : i \in 1..Len(ppc.ops)}]_vars

\* the operations the dispatcher has left in the post under way
OpsLeft == {ppc.ops[i] : i \in 1..Len(ppc.ops)}

\* a slot-state-changing command has been handed to the controller and the
\* dispatcher has not received its completion
SlotCommandInFlight ==
    \/ dpc \in {"address_device", "evaluate_context", "configure_endpoint"}
       /\ cmdRes = NoCmdRes
    \/ ppc.what \in SlotCommandKinds /\ ppc.ops # << >> /\ OpsLeft \subseteq {"fence", "await"}

\* C22 as stated: the DeviceContextList write lock is held from the first
\* mutation of the Input Context until the command's completion is received.
C22_LockHeldUntilCompletion == SlotCommandInFlight => dev_ctx = "dispatcher"

\* C22 as amended: the write lock is held for the stores to the Input Context
\* only and is free again before the command is posted and while it is in
\* flight; the Input Context is written under the lock and is not written
\* while the command is in flight.
C22_LockHeldForTheWriteOnly ==
    [][/\ ep0Mps' # ep0Mps => dev_ctx = "dispatcher" /\ dev_ctx' = "dispatcher"
       /\ SlotCommandInFlight => dev_ctx = "free" /\ ep0Mps' = ep0Mps
       /\ DoorbellNext /\ ppc.what \in SlotCommandKinds => dev_ctx = "free"]_vars

\* an EvaluateContext is with the controller, the dispatcher waits for its
\* completion, the lock is free and the Input Context holds what was posted
C22_InFlightWithTheLockFree ==
    /\ dpc = "evaluate_context" /\ hwCmd # << >> /\ cmdRes = NoCmdRes
    /\ dev_ctx = "free"
    /\ ep0Mps[dslot] = evalLog.mps

\* a doorbell register is written: the controller is told of a new TRB
DoorbellWritten ==
    \/ Len(hwCmd') > Len(hwCmd)
    \/ \E r \in RingIds : Len(hwXfer'[r]) > Len(hwXfer[r])

\* the event loop takes the event of a TRB that has a keep-fill request stored
RefillEvent ==
    /\ EventStep
    /\ Head(evq).type = "TransferEvent"
    /\ Head(evq).addr \in DOMAIN extra_works

\* C23 as stated: after init the doorbells are written by the dispatcher only
\* (and ERDP by the event loop only).
C23_DoorbellsByTheDispatcherOnly ==
    [][DoorbellWritten => DoorbellNext /\ ~EventStep]_vars

\* C23 as amended: a doorbell is written by the dispatcher or by the event
\* loop when it posts the refill of a keep-fill request, and the event loop
\* does write it whenever it handles such an event without a panic; the event
\* ring is consumed, and ERDP written, only in a step of the event loop, while
\* the dispatcher is suspended or idle.
C23_DoorbellsByDispatcherAndRefill ==
    [][/\ DoorbellWritten => (DoorbellNext /\ ~EventStep) \/ RefillEvent
       /\ RefillEvent /\ panicked' = "" => DoorbellWritten
       /\ EventStep => Suspended /\ UNCHANGED <<ppc, dpc, dcur, queue, cpc>>]_vars

\* the event loop has posted a refill while a command of the dispatcher was
\* with the controller
C23_RefillPostedByTheEventLoop ==
    /\ kfEv > 0 /\ extra_works # EmptyMap
    /\ hwXfer[RingNo(slotId, IntDci)] # << >>
    /\ dpc = "configure_endpoint" /\ hwCmd # << >>

(***************************************************************************)
(* Properties of transfers pushed without a response (SpecFlood).          *)
(***************************************************************************)
\* the dispatcher pops a control transfer and posts it
ControlPopped ==
    /\ queue # << >> /\ queue' = Tail(queue)
    /\ Head(queue).op = "Control"
    /\ panicked' = ""

\* the ring position after position j, the Link TRB stepped over
NextIdx(j) == IF j + 1 = LinkIdx THEN 0 ELSE j + 1

\* the position i - 1 enqueues after position j
RECURSIVE IdxAfter(_, _)
IdxAfter(j, i) == IF i = 1 THEN j ELSE IdxAfter(NextIdx(j), i - 1)

SlotOps == {"Control", "Interrupt", "EnableFunction"}

\* C25: the dispatcher and the event loop never process a Control, Interrupt
\* or EnableFunction request for a device whose slot_id is not set, whatever
\* the interleaving of the facade calls: such a request is in the queue, with
\* the dispatcher, with the controller or in the tables only once the cell is
\* set, and post_transfer never reads the empty cell.
C25_SlotSetBeforeTransfers ==
    /\ panicked # "slot_id read before it is set"
    /\ (\E i \in 1..Len(queue) : queue[i].op \in SlotOps) => slotId # 0
    /\ dcur.op \in SlotOps => slotId # 0
    /\ (\E a \in DOMAIN finish_jobs : finish_jobs[a].k # "CommandCallback") => slotId # 0
    /\ extra_works # EmptyMap => slotId # 0
    /\ (\E r \in RingIds : hwXfer[r] # << >>) => slotId # 0
    /\ (\E i \in 1..Len(evq) : evq[i].type = "TransferEvent") => slotId # 0
    /\ \A a \in DOMAIN extra_works : extra_works[a].slot = slotId

\* a driver's transfer waits in the queue while request_assign, which wrote
\* Assigned and pushed GetDescriptor(Device), waits for that transfer
C25_TransferQueuedDuringRequestAssign ==
    /\ \E i \in 1..Len(queue) : queue[i].op \in SlotOps /\ queue[i].cmp = "NOOP"
    /\ cpc["assign"] = "acquire3" /\ sem = 0
    /\ slotId # 0

(***************************************************************************)
(* Properties of the configuration semaphore.                              *)
(***************************************************************************)
\* where a caller holds a guard of configure_sem in a local variable
GuardHeldAt == {"push_init", "write_state", "push_device", "loop", "push_function"}

\* the guards of configure_sem that exist: held by a caller, travelling in a
\* queued request, stored in finish_jobs as DropSem, or with the dispatcher
\* (the request of InitializeDevice or EnableFunction it is working on, or
\* the transfer it is posting)
Guards ==
    Cardinality({c \in Callers : cpc[c] \in GuardHeldAt})
    + Cardinality({i \in 1..Len(queue) : queue[i].cmp = "DropSem"})
    + Cardinality({a \in DOMAIN finish_jobs : finish_jobs[a].k = "DropSem"})
    + (IF dcur.cmp = "DropSem" THEN 1 ELSE 0)
    + (IF ppc.what \in {"Control", "Interrupt"} /\ ppc.req.cmp = "DropSem"
          /\ "insert" \in OpsLeft THEN 1 ELSE 0)

\* request_assign returns to its caller
AssignReturns == \E c \in Callers : cpc[c] = "loop" /\ cpc'[c] \in {"done", "push"}

\* C26: at most one guard of the device's configuration semaphore exists at
\* any time, wherever it is (with a caller, in a queued request, in the
\* pending table as DropSem, or with the dispatcher), and unless a task has
\* panicked the guard or the free permit is there; when request_assign
\* returns the permit is available again.
C26_OneGuardPerDevice ==
    [][/\ sem' + Guards' <= 1
       /\ panicked' = "" => sem' + Guards' = 1
       /\ AssignReturns => sem' = 1 /\ Guards' = 0]_vars

\* the guard is in the pending table under the Status TRB of a descriptor
\* request while request_assign waits for the permit
C26_GuardInThePendingTable ==
    /\ \E a \in DOMAIN finish_jobs : finish_jobs[a].k = "DropSem"
    /\ cpc["assign"] \in {"acquire3", "acquire_cfg"}
    /\ sem = 0

(***************************************************************************)
(* Properties of the commands (SpecPost).                                  *)
(***************************************************************************)
\* the addresses under which finish_jobs holds a CommandCallback
CommandCallbacks == {a \in DOMAIN finish_jobs : finish_jobs[a].k = "CommandCallback"}

\* the dispatcher's next operation is a store to an Input Context
InputContextStoreNext ==
    ppc.ops # << >> /\ Head(ppc.ops) \in {"mutate", "setup_endpoint"}

\* C27: the pending table holds at most one CommandCallback entry, and while
\* it is there, the command in flight, no step modifies the Input Context of
\* the slot the command targets.
C27_OneCommandInFlight ==
    [][/\ Cardinality(CommandCallbacks') <= 1
       /\ CommandCallbacks # {} =>
             /\ ep0Mps' = ep0Mps
             /\ ~(InputContextStoreNext /\ ppc' # ppc)
             /\ Len(hwCmd') <= 1]_vars

\* a ConfigureEndpoint is in flight: its callback is the only one in the
\* table and the endpoint's ring had been set up before it was posted
C27_ConfigureEndpointInFlight ==
    /\ Cardinality(CommandCallbacks) = 1
    /\ hwCmd # << >> /\ Head(hwCmd).kind = "ConfigureEndpoint"
    /\ RingNo(slotId, IntDci) \in DOMAIN rings
    /\ dpc = "configure_endpoint"

(***************************************************************************)
(* Properties of the transfer rings under a driver that does not wait      *)
(* (SpecFlood).                                                            *)
(***************************************************************************)
\* the ring position before position i, the Link TRB stepped over
PrevIdx(i) == IF i = 0 THEN LinkIdx - 1 ELSE i - 1

\* the TRBs of the TD whose last TRB is at position i of a ring: one Normal
\* TRB, or Setup, (Data,) Status
TdLen(ring, i) ==
    IF ring.trbs[i].type # "Status" THEN 1
    ELSE IF ring.trbs[PrevIdx(i)].type = "Data" THEN 3 ELSE 2

\* the TRBs of the TDs tds (the addresses of their last TRBs) of ring r
RECURSIVE TrbsOf(_, _)
TrbsOf(r, tds) ==
    IF tds = << >> THEN 0
    ELSE TdLen(rings[r], (Head(tds) % 1024) \div 16) + TrbsOf(r, Tail(tds))

\* the TRBs posted on transfer ring r that the controller has not executed
Unexecuted(r) == TrbsOf(r, hwXfer[r])

\* C29: the number of TRBs posted on a transfer ring that the hardware has
\* not yet executed never exceeds the ring's usable capacity, the ring length
\* minus the Link TRB.
C29_RingNeverOverflows ==
    \A r \in DOMAIN rings \ {CmdRing} : Unexecuted(r) <= RingLen - 1

\* the address of the TRB written last on ring r in this step
LastWritten(r) == TrbAddr(r, PrevIdx(rings'[r].idx))

\* ring r has a TRB enqueued in this step
Posted(r) == r \in DOMAIN rings' /\ (r \notin DOMAIN rings \/ rings'[r] # rings[r])

\* the keys of a table whose entries this step does not take out: the event
\* loop removes the entry under the address of the event it handles
Live(table) ==
    DOMAIN table \ (IF evq # << >> /\ evq' = Tail(evq) THEN {Head(evq).addr} ELSE {})

\* C28: in every reachable state the key sets of the pending table and the
\* refill table are disjoint (so that no TransferEvent both runs a completion
\* action and triggers a refill), and the key a post inserts, the address of
\* the TRB it wrote last, is never the key of a live entry.
C28_TablesDisjointNoOverwrite ==
    [][/\ DOMAIN finish_jobs' \cap DOMAIN extra_works' = {}
       /\ \A r \in RingIds : Posted(r) =>
             LastWritten(r) \notin Live(finish_jobs) \cup Live(extra_works)]_vars

(***************************************************************************)
(* Properties of request_once over the operations (SpecNoopFair).          *)
(***************************************************************************)
\* caller c waits at receiver.await of request_once
Awaiting(c) == cpc[c] = "await"

\* C30: every request_once call eventually returns a Result to its caller,
\* whatever the operation (NOOP, for which no TransferEvent exists, included),
\* the hardware completing every posted TRB; and the one-shot sender is never
\* dropped unsent while the caller still awaits it.
C30_EveryRequestOnceReturns ==
    /\ [](\A c \in Drivers : Awaiting(c) => chan[cloc[c].ch].st # "canceled")
    /\ \A c \in Drivers : Awaiting(c) ~> (cpc[c] = "idle" /\ panicked = "")

(***************************************************************************)
(* Properties of the request queues (SpecMux).                             *)
(***************************************************************************)
\* the step hands req to post_transfer: what the arm of its operation does
\* before the first await that suspends
HandedToPostTransfer(req) ==
    CASE req.op = "InitializeDevice" -> dcur' = req /\ dpc' = "enable_slot"
      [] req.op = "EnableFunction" ->
            (dcur' = req /\ dpc' = "configure_endpoint") \/ panicked' # ""
      [] req.op \in {"Bulk", "Isoch"} -> panicked' = "not yet implemented"
      [] req.op = "Control" ->
            \/ panicked' # ""
            \/ LET r == RingNo(slotId, CONTROL_DCI)
               IN  rings'[r] = RingEnqueueAll(rings[r], ControlTrbs(req))
      [] req.op = "Interrupt" ->
            \/ panicked' # ""
            \/ LET r == RingNo(slotId, req.dci)
               IN  /\ r \in DOMAIN rings'
                   /\ rings'[r].trbs[PrevIdx(rings'[r].idx)].buf = req.buf
      [] OTHER -> rings' = rings /\ dpc' = dpc

\* one step of the queue q of a device: a request is appended behind the ones
\* that wait, there being room for it, or the oldest one is taken out and
\* handed to post_transfer
QueueStep(q, qn) ==
    \/ qn = q
    \/ Len(q) < QueueCap /\ Len(qn) = Len(q) + 1 /\ qn = Append(q, qn[Len(qn)])
    \/ q # << >> /\ qn = Tail(q) /\ dpc = "idle" /\ HandedToPostTransfer(Head(q))

\* C31: for each device, requests are passed to post_transfer in the order
\* they were pushed to that device's queue, none lost and none duplicated: a
\* queue only changes by a push behind the requests that wait or by the
\* dispatch of its oldest request; it never holds more than QueueCap
\* requests, and no push happens on a full queue (the producer stays
\* suspended at the push).
C31_RequestsDispatchedInPushOrder ==
    [][/\ QueueStep(queue, queue')
       /\ QueueStep(queue2, queue2')
       /\ Len(queue') <= QueueCap /\ Len(queue2') <= QueueCap]_vars

\* the queue of the first device is full, with two different requests, and
\* a driver is suspended at its push
C31_ProducerSuspendedOnFullQueue ==
    /\ Len(queue) = QueueCap
    /\ queue[1] # queue[QueueCap]
    /\ cpc["d1"] = "push"

(***************************************************************************)
(* Properties of the slots (Spec).                                         *)
(***************************************************************************)
\* the EnableSlot commands written to the command ring
EnableSlotsPosted ==
    Cardinality({i \in 0..(LinkIdx - 1) : rings[CmdRing].trbs[i].type = "EnableSlot"})

\* C32: for the device, EnableSlot is posted at most once over any
\* interleaving of request_assign, request_once and request_no_response, the
\* device takes no more than one hardware slot, and new_slot is called for no
\* slot id but the one in the device's slot_id cell.
C32_OneSlotPerDevice ==
    /\ EnableSlotsPosted <= 1
    /\ hwSlots <= 1
    /\ dslot # 0 => dslot = slotId

(***************************************************************************)
(* Properties of the event loop over the event variants (SpecEvents).      *)
(***************************************************************************)
\* the event loop takes an event that is neither a TransferEvent nor a
\* CommandCompletion
OtherEventTaken ==
    /\ evq # << >> /\ evq' = Tail(evq)
    /\ Head(evq).type \in OtherEvents

\* C33: the event loop keeps running after an event of any variant: handling
\* a PortStatusChange, BandwidthRequest, Doorbell, HostController,
\* DeviceNotification or MfindexWrap event leaves the pending table, the
\* refill table and the rings unchanged and does not end the loop.
C33_OtherEventsAreSkipped ==
    [][OtherEventTaken =>
          /\ UNCHANGED <<finish_jobs, extra_works, rings>>
          /\ panicked' = ""]_vars

(***************************************************************************)
(* Properties of the endpoints' rings (SpecOnce).                          *)
(***************************************************************************)
\* an EnableFunction has set up the endpoints of the function: its
\* ConfigureEndpoint command is on the command ring
EndpointsSetUp ==
    \E i \in 0..(LinkIdx - 1) : rings[CmdRing].trbs[i].type = "ConfigureEndpoint"

\* C34: for every slot and every DCI greater than 1, a transfer ring exists
\* if and only if the endpoint has been set up by an EnableFunction for the
\* slot; an Interrupt transfer to an endpoint that was never configured
\* creates no ring.
C34_RingIffEndpointSetUp ==
    \A s \in 1..MaxSlots :
        RingNo(s, IntDci) \in DOMAIN rings <=> (s = slotId /\ EndpointsSetUp)

\* the step in which setup_endpoint writes the endpoint context of the
\* interrupt endpoint
SetupEndpointWrites ==
    \/ dpc = "idle" /\ dpc' = "configure_endpoint"
    \/ ppc.ops # << >> /\ Head(ppc.ops) = "setup_endpoint" /\ ppc' # ppc

\* C35: whenever setup_endpoint writes an endpoint context, the Dequeue Cycle
\* State written is the producer cycle the endpoint's transfer ring has then,
\* for a ring the call created and for one that existed and has wrapped
C35_DcsIsRingCycle ==
    [][SetupEndpointWrites =>
          LET r == RingNo(slotId, IntDci)
          IN  /\ r \in DOMAIN ep_ctx'
              /\ ep_ctx'[r].dcs = rings'[r].cycle]_vars

\* the step in which the event loop takes an event from the segment
EventTaken == event'.idx # event.idx

C39_NextDeliversEachEventOnce ==
    LET got == EventRingNext(event)
    IN  /\ got.some <=> event.trbs[event.idx].cyc = event.cycle
        /\ got.some =>
              /\ got.ring.idx = (event.idx + 1) % EventLen
              /\ got.ring.cycle = (event.cycle <=> event.idx + 1 # EventLen)
              /\ got.ring.trbs = event.trbs
              /\ InRing(event) > 0
              /\ evq # << >>
              /\ got.ev = Head(evq)
        /\ ~got.some => got.ring = event /\ InRing(event) = 0

\* next() returns None at a slot that holds an event of the pass before,
\* while the controller has an event it has not written yet
C39_StaleSlotNotDelivered ==
    /\ ~EventRingNext(event).some
    /\ event.trbs[event.idx].ev # NoEvent
    /\ event.cycle = FALSE
    /\ evq # << >>

\* C37: on a ring created with cycle 1, after any number of enqueues the
\* producer cycle is 1 when an even number of wraparounds past the Link TRB
\* have happened and 0 when an odd number have, and every TRB carries the
\* producer cycle of the pass it was written in: the slots before the enqueue
\* index that of this pass, the slots from it on and the Link TRB that of the
\* pass before
C37_CycleIsInitialXorWraps ==
    LET ring == enq.ring
    IN  /\ ring.cycle <=> enq.wraps % 2 = 0
        /\ \A i \in 0..(LinkIdx - 1) :
              /\ i < ring.idx => ring.trbs[i].cyc = ring.cycle
              /\ (i >= ring.idx /\ enq.wraps > 0) => ring.trbs[i].cyc = ~ring.cycle
              /\ (i >= ring.idx /\ enq.wraps = 0) => ring.trbs[i] = NoTrb
        /\ enq.wraps > 0 => ring.trbs[LinkIdx].cyc = ~ring.cycle

\* the ring in its third pass: the producer cycle is 1 again, over TRBs of
\* the second pass that carry 0
C37_ThirdPass ==
    /\ enq.wraps = 2
    /\ enq.ring.idx > 0
    /\ enq.ring.cycle
    /\ enq.ring.trbs[LinkIdx - 1].cyc = FALSE

\* C38: enqueue never writes a caller's TRB into the Link slot; the enqueue
\* after RingLen - 1 of them lands at index 0 with the cycle bit toggled; the
\* addresses returned between two wraparounds are all different
C38_WrapsThroughTheLink ==
    LET ring == enq.ring
    IN  /\ ring.trbs[LinkIdx].type = "Link"
        /\ ring.idx \in 0..(LinkIdx - 1)
        /\ ring.idx = enq.k % LinkIdx
        /\ enq.k = LinkIdx => ring.idx = 0 /\ ring.cycle = FALSE
        /\ enq.k = LinkIdx + 1 =>
              /\ enq.pass = <<TrbAddr(CmdRing, 0)>>
              /\ ring.trbs[0].cyc = FALSE
              /\ ring.trbs[0].type # "None"
        /\ \A i, j \in 1..Len(enq.pass) : enq.pass[i] = enq.pass[j] => i = j
        /\ \A i \in 1..Len(enq.pass) : enq.pass[i] # TrbAddr(CmdRing, LinkIdx)

\* the enqueue after the first lap has been made: it went to index 0
C38_FirstEnqueueOfSecondLap ==
    /\ enq.k = LinkIdx + 1
    /\ enq.ring.idx = 1
    /\ enq.wraps = 1

\* C40: once init has returned, DCBAA[slot] is the address of the slot's
\* Output Context for every slot in the DeviceContextList's slot map, and
\* DCBAA[0] is the scratchpad array's address when the controller reports
\* max_scratchpad_buffers > 0 and zero when it reports none
C40_DcbaaConsistent ==
    ipc = "done" =>
        /\ \A s \in device_ctx_inners : dcbaa[s] = OutputContextAddr(s)
        /\ regs.dcbaa0 = "scratchpad_array" <=> regs.scratch > 0
        /\ regs.scratch = 0 => regs.dcbaa0 = "zero"

\* the device has its slot on a controller that asked for scratchpad buffers
C40_SlotAndScratchpads ==
    /\ ipc = "done"
    /\ regs.scratch > 0
    /\ regs.dcbaa0 = "scratchpad_array"
    /\ slotId # 0
    /\ slotId \in device_ctx_inners
    /\ dcbaa[slotId] = OutputContextAddr(slotId)
    /\ devState = "Assigned"

====
